---- MODULE Spec2Model ----
(***************************************************************************)
(* A model of ani-core: the bus matrix (src/src/mem.rs), the System facade *)
(* (src/src/lib.rs) and the CPU actor (src/src/iisa/executor.rs).          *)
(*                                                                         *)
(* Physical addresses are plain integers.  A typed bus value is the        *)
(* sequence of bytes it occupies in host memory (the host stores through a *)
(* raw pointer, so memory order is the host's native order).  A host       *)
(* buffer is kept sparsely: a fill byte plus the bytes that differ from    *)
(* it, so that ranges of realistic size cost nothing to represent.         *)
(***************************************************************************)
EXTENDS Integers, Sequences, FiniteSets, TLC

VARIABLES
    ranges,        \* BusMatrix.ranges of the root matrix (mem.rs:55)
    update_fns,    \* BusMatrix.update_fns of the root matrix (mem.rs:56): child ids
    heap,          \* the host buffers behind Mappable ranges, by pointer
    slaves,        \* the state of each BusSlave peripheral, by slave id
    children,      \* per child: the Add events its callback has been handed
    naccess,       \* number of bus accesses made so far (bounded by MaxAccesses)
    last,          \* the last bus operation: its inputs, result and pre-state
    cpus,          \* System.cpus (lib.rs:70): handle -> the CPU's worker
    next_cpu_handle, \* System.next_cpu_handle (lib.rs:71)
    chan,          \* per worker: the messages sent and not yet received
    backend,       \* per worker: the Backend's fields (executor.rs:143-151)
    wpc,           \* per worker: where its thread is in Backend::execute
    future,        \* the future the host waits on (one: the host is one thread)
    host,          \* the host thread: idle, or inside a facade call
    ret,           \* what the last facade call returned
    view,          \* per worker and register: the value the host set last
    steps,         \* per worker: the number of single_steps it has made
    call           \* a direct call of a library function: its arguments and result

busVars == <<ranges, update_fns, heap, slaves, children, naccess, last>>

sysVars == <<cpus, next_cpu_handle, chan, backend, wpc, future, host, ret, view, steps, call>>

vars == <<ranges, update_fns, heap, slaves, children, naccess, last,
          cpus, next_cpu_handle, chan, backend, wpc, future, host, ret, view, steps, call>>

----------------------------------------------------------------------------
(* Bounds of the model *)

MaxAccesses == 1
MaxChildren == 2

(* Program constants: MemProt bit flags (lib.rs:14-25) *)
PROT_READ == 1
PROT_WRITE == 2
PROT_EXEC == 4

PROT_RW == PROT_READ + PROT_WRITE

PROT_ALL == PROT_READ + PROT_WRITE + PROT_EXEC

\* bitflags' contains(): every bit of flag is set in prot (flag is one bit here)
Contains(prot, flag) == (prot \div flag) % 2 = 1

----------------------------------------------------------------------------
(* Inputs explored *)

\* [base, base+size) spans handed to add_mappable_range / add_bus_slave
BusSpans == { <<4096, 16>>, <<4112, 16>> }
FanSpans == { <<4096, 16>>, <<4112, 16>>, <<4128, 16>> }
Prots == { PROT_READ, PROT_WRITE, PROT_RW }
\* what a freshly allocated (uninitialised) buffer may hold
FillBytes == { 0, 171 }
SlaveIds == { 1 }
ChildIds == 1..MaxChildren
Widths == { 1, 2, 4, 8 }
\* addresses probed: range base, the exact-fit address of each width, the
\* last byte and one past the end of the first span (= base of the second)
Addrs == { 4096, 4104, 4108, 4110, 4111, 4112 }
\* the data of a typed write of width w: w distinct non-fill bytes
WriteData(w) == [i \in 1..w |-> 16 * i + 1]
\* byte strings handed to set_range
Incoming == { <<>>, <<17>>, <<17, 34, 51, 68>>,
              <<1, 2, 3, 4, 5, 6, 7, 8, 9, 10, 11, 12, 13, 14, 15, 16>>,
              <<1, 2, 3, 4, 5, 6, 7, 8, 9, 10, 11, 12, 13, 14, 15, 16, 17>> }
SetBases == { 4096, 4108, 4111, 4112 }

----------------------------------------------------------------------------
(* Host buffers *)

Min(S) == CHOOSE x \in S : \A y \in S : x <= y

\* a buffer of the given size whose bytes all hold fill
NewBuffer(size, fill) == [size |-> size, fill |-> fill, over |-> <<>>]

BufRead(buf, off) == IF off \in DOMAIN buf.over THEN buf.over[off] ELSE buf.fill

BufReadN(buf, off, n) == [i \in 1..n |-> BufRead(buf, off + i - 1)]

\* store one byte; the sparse map is kept canonical (no entry equal to fill)
BufWrite(buf, off, b) ==
    LET keep == (DOMAIN buf.over) \ {off}
        dom  == IF b = buf.fill THEN keep ELSE keep \cup {off}
    IN [buf EXCEPT !.over = [o \in dom |-> IF o = off THEN b ELSE buf.over[o]]]

\* store bytes[1..n] at off.., dropping the bytes that fall outside the buffer
RECURSIVE BufWriteN(_, _, _)
BufWriteN(buf, off, bytes) ==
    IF bytes = <<>> THEN buf
    ELSE BufWriteN(IF off < buf.size THEN BufWrite(buf, off, Head(bytes)) ELSE buf,
                   off + 1, Tail(bytes))

----------------------------------------------------------------------------
(* MemRange (mem.rs:34-47) *)

Mappable(base, size, ptr, prot) ==
    [base |-> base, size |-> size, kind |-> "Mappable", ptr |-> ptr, prot |-> prot, slave |-> 0]

Mmio(base, size, slave) ==
    [base |-> base, size |-> size, kind |-> "Mmio", ptr |-> 0, prot |-> 0, slave |-> slave]

RangeEnd(r) == r.base + r.size

Overlap(r, s) == r.base < RangeEnd(s) /\ s.base < RangeEnd(r)

NonOverlapping(rs) ==
    \A i, j \in 1..Len(rs) : i # j => ~Overlap(rs[i], rs[j])

----------------------------------------------------------------------------
(* TestBusSlave (mem.rs:424-484): logs each access; a read answers with the
   length of the log, a write with Success.  A slave sits behind a Mutex
   (mem.rs:36), which is poisoned once a thread has panicked holding it *)

NewSlave == [accesses |-> <<>>, poisoned |-> FALSE]

\* the little-endian bytes of a small count n < 256, as a value of width w
CountBytes(n, w) == [i \in 1..w |-> IF i = 1 THEN n % 256 ELSE 0]

SlaveRead(sl, s, addr, w) ==
    LET acc == Append(sl[s].accesses, [op |-> "read", width |-> w, addr |-> addr, data |-> <<>>])
    IN [slaves |-> [sl EXCEPT ![s].accesses = acc],
        res    |-> "Success",
        value  |-> CountBytes(Len(acc), w)]

SlaveWrite(sl, s, addr, w, data) ==
    LET acc == Append(sl[s].accesses, [op |-> "write", width |-> w, addr |-> addr, data |-> data])
    IN [slaves |-> [sl EXCEPT ![s].accesses = acc],
        res    |-> "Success"]

\* (mutant) the slave is called whether or not its lock is poisoned
MmioRead_IgnoringPoison(sl, s, addr_offset, w) == SlaveRead(sl, s, addr_offset, w)

\* the Mmio arm of read_uN: slave_mutex.lock(), BusError if it is poisoned,
\* else the slave's read of the same width
MmioRead(sl, s, addr_offset, w) ==
    IF sl[s].poisoned
    THEN [slaves |-> sl, res |-> "BusError", value |-> <<>>]
    ELSE SlaveRead(sl, s, addr_offset, w)

\* the Mmio arm of write_uN
MmioWrite(sl, s, addr_offset, w, data) ==
    IF sl[s].poisoned
    THEN [slaves |-> sl, res |-> "BusError"]
    ELSE SlaveWrite(sl, s, addr_offset, w, data)

----------------------------------------------------------------------------
(* BusMatrix: typed reads (mem.rs:134-264) *)

\* the `continue` test of read_uN: the range is passed over
ReadSkips(r, addr, w) == (addr < r.base) \/ ((addr + w) >= (r.base + r.size))

\* index of the first range the scan does not pass over, 0 if none
FirstReadRange(rs, addr, w) ==
    LET hits == {i \in 1..Len(rs) : ~ReadSkips(rs[i], addr, w)}
    IN IF hits = {} THEN 0 ELSE Min(hits)

typed_read(rs, hp, sl, addr, w) ==
    LET i == FirstReadRange(rs, addr, w) IN
    IF i = 0
    THEN [res |-> "BusError", value |-> <<>>, range |-> 0, off |-> 0, slaves |-> sl]
    ELSE LET r == rs[i]
             addr_offset == addr - r.base
         IN IF r.kind = "Mappable"
            THEN IF Contains(r.prot, PROT_READ)
                 THEN [res |-> "Success", value |-> BufReadN(hp[r.ptr], addr_offset, w),
                       range |-> i, off |-> addr_offset, slaves |-> sl]
                 ELSE [res |-> "BusError", value |-> <<>>,
                       range |-> i, off |-> addr_offset, slaves |-> sl]
            ELSE LET a == MmioRead(sl, r.slave, addr_offset, w)
                 IN [res |-> a.res, value |-> a.value,
                     range |-> i, off |-> addr_offset, slaves |-> a.slaves]

read_u8(rs, hp, sl, addr) == typed_read(rs, hp, sl, addr, 1)

read_u16(rs, hp, sl, addr) == typed_read(rs, hp, sl, addr, 2)

read_u32(rs, hp, sl, addr) == typed_read(rs, hp, sl, addr, 4)

read_u64(rs, hp, sl, addr) == typed_read(rs, hp, sl, addr, 8)

----------------------------------------------------------------------------
(* BusMatrix: typed writes (mem.rs:266-400) *)

\* the `continue` test of write_uN; endoff is the constant the source adds to
\* addr, which is 1 in each of the four functions
WriteSkips(r, addr, endoff) == (addr < r.base) \/ ((addr + endoff) >= (r.base + r.size))

FirstWriteRange(rs, addr, endoff) ==
    LET hits == {i \in 1..Len(rs) : ~WriteSkips(rs[i], addr, endoff)}
    IN IF hits = {} THEN 0 ELSE Min(hits)

\* the store through the raw pointer writes w bytes at addr_offset; bytes past
\* the end of the allocation are outside the buffer (see the oob field of the
\* write actions for what becomes of them)
typed_write(rs, hp, sl, addr, endoff, w, data) ==
    LET i == FirstWriteRange(rs, addr, endoff) IN
    IF i = 0
    THEN [res |-> "BusError", range |-> 0, off |-> 0, heap |-> hp, slaves |-> sl]
    ELSE LET r == rs[i]
             addr_offset == addr - r.base
         IN IF r.kind = "Mappable"
            THEN IF Contains(r.prot, PROT_READ)
                 THEN [res |-> "Success", range |-> i, off |-> addr_offset,
                       heap |-> [hp EXCEPT ![r.ptr] = BufWriteN(@, addr_offset, data)],
                       slaves |-> sl]
                 ELSE [res |-> "BusError", range |-> i, off |-> addr_offset,
                       heap |-> hp, slaves |-> sl]
            ELSE LET a == MmioWrite(sl, r.slave, addr_offset, w, data)
                 IN [res |-> a.res, range |-> i, off |-> addr_offset,
                     heap |-> hp, slaves |-> a.slaves]

write_u8(rs, hp, sl, addr, data) == typed_write(rs, hp, sl, addr, 1, 1, data)

write_u16(rs, hp, sl, addr, data) == typed_write(rs, hp, sl, addr, 1, 2, data)

write_u32(rs, hp, sl, addr, data) == typed_write(rs, hp, sl, addr, 1, 4, data)

write_u64(rs, hp, sl, addr, data) == typed_write(rs, hp, sl, addr, 1, 8, data)

----------------------------------------------------------------------------
(* BusMatrix::find_range and set_range (mem.rs:94-122) *)

\* (mutant) a range is a hit as soon as it holds the first byte asked for
FindRangeHit_FirstByteOnly(r, base, len) ==
    LET range_end == r.base + r.size
    IN /\ r.kind = "Mappable"
       /\ (base >= r.base) /\ (base < range_end)

FindRangeHit(r, base, len) ==
    LET end == base + len
        range_end == r.base + r.size
    IN /\ r.kind = "Mappable"
       /\ (base >= r.base) /\ (base < range_end)
       /\ (end > r.base) /\ (end <= range_end)

\* Ok(buffer.offset(base - range.base)) of the first hit, or UnableToFindRange
find_range(rs, base, len) ==
    LET hits == {i \in 1..Len(rs) : FindRangeHit(rs[i], base, len)}
    IN IF hits = {}
       THEN [ok |-> FALSE, range |-> 0, ptr |-> 0, off |-> 0,
             err |-> <<"UnableToFindRange", base, len>>]
       ELSE LET i == Min(hits)
            IN [ok |-> TRUE, range |-> i, ptr |-> rs[i].ptr, off |-> base - rs[i].base,
                err |-> <<>>]

set_range(rs, hp, incoming, base) ==
    LET f == find_range(rs, base, Len(incoming))
    IN IF f.ok
       THEN [res |-> "Ok", err |-> <<>>, range |-> f.range,
             heap |-> [hp EXCEPT ![f.ptr] = BufWriteN(@, f.off, incoming)]]
       ELSE [res |-> "Err", err |-> f.err, range |-> 0, heap |-> hp]

----------------------------------------------------------------------------
(* BusMatrix: construction (mem.rs:60-92, 124-130) *)

\* add_mappable_range after a successful posix_memalign, which returned the
\* fresh buffer ptr: pushes the range and returns Ok.  No update_fn is called.
add_mappable_range(rs, base, size, ptr, prot) == Append(rs, Mappable(base, size, ptr, prot))

\* add_bus_slave: pushes the range and returns Ok.  No update_fn is called.
add_bus_slave(rs, base, size, slave) == Append(rs, Mmio(base, size, slave))

\* apply_update_op(Add(range)) on a child's list of ranges
apply_update_op(crs, range) == Append(crs, range)

\* (mutant) the replay leaves out the range added last
ReplayedEventsButLast(rs) == SubSeq(rs, 1, Len(rs) - 1)

\* the calls add_child_matrix makes to the new update_fn: one Add per range
\* of the parent, in the order of self.ranges
ReplayedEvents(rs) == rs

\* a child that applies each event it is handed, as the one of tests::update_add
RECURSIVE ApplyAll(_, _)
ApplyAll(crs, events) ==
    IF events = <<>> THEN crs
    ELSE ApplyAll(apply_update_op(crs, Head(events)), Tail(events))

----------------------------------------------------------------------------
(* The state machine of a bus matrix *)

NoLast ==
    [op |-> "none", addr |-> 0, width |-> 0, data |-> <<>>,
     res |-> "none", value |-> <<>>, err |-> <<>>, range |-> 0, off |-> 0,
     oob |-> "none", child |-> 0,
     heapBefore |-> <<>>, slavesBefore |-> <<>>, childrenBefore |-> <<>>]

BusInit ==
    /\ ranges = <<>>
    /\ update_fns = <<>>
    /\ heap = <<>>
    /\ slaves = [s \in SlaveIds |-> NewSlave]
    /\ children = [c \in ChildIds |-> <<>>]
    /\ naccess = 0
    /\ last = NoLast

\* The caller's obligation (spec, section 3): ranges never overlap
CallerKeepsRangesApart(base, size) ==
    NonOverlapping(Append(ranges, Mmio(base, size, 0)))

Snapshot(op) ==
    [NoLast EXCEPT !.op = op, !.heapBefore = heap, !.slavesBefore = slaves,
                   !.childrenBefore = children]

AddMappableRange(base, size, prot) ==
    /\ CallerKeepsRangesApart(base, size)
    /\ \E fill \in FillBytes :
          /\ heap' = Append(heap, NewBuffer(size, fill))
          /\ ranges' = add_mappable_range(ranges, base, size, Len(heap) + 1, prot)
    /\ last' = [Snapshot("add_mappable_range") EXCEPT
                   !.addr = base, !.width = size, !.res = "Ok", !.range = Len(ranges) + 1]
    /\ UNCHANGED <<update_fns, slaves, children, naccess>>
    /\ UNCHANGED sysVars

\* posix_memalign fails: Err(MemAllocation), nothing is pushed (mem.rs:69-71)
AddMappableRangeFails(base, size, prot) ==
    /\ CallerKeepsRangesApart(base, size)
    /\ last' = [Snapshot("add_mappable_range") EXCEPT
                   !.addr = base, !.width = size, !.res = "Err", !.err = <<"MemAllocation">>]
    /\ UNCHANGED <<ranges, update_fns, heap, slaves, children, naccess>>
    /\ UNCHANGED sysVars

AddBusSlave(base, size, slave) ==
    /\ CallerKeepsRangesApart(base, size)
    /\ ranges' = add_bus_slave(ranges, base, size, slave)
    /\ last' = [Snapshot("add_bus_slave") EXCEPT
                   !.addr = base, !.width = size, !.res = "Ok", !.range = Len(ranges) + 1]
    /\ UNCHANGED <<update_fns, heap, slaves, children, naccess>>
    /\ UNCHANGED sysVars

\* add_child_matrix with the update_fn of child c, which applies what it is handed
AddChildMatrix(c) ==
    /\ c = Len(update_fns) + 1
    /\ c \in ChildIds
    /\ children' = [children EXCEPT ![c] = ApplyAll(@, ReplayedEvents(ranges))]
    /\ update_fns' = Append(update_fns, c)
    /\ last' = [Snapshot("add_child_matrix") EXCEPT !.child = c, !.res = "Ok"]
    /\ UNCHANGED <<ranges, heap, slaves, naccess>>
    /\ UNCHANGED sysVars

\* a thread that holds the lock of slave s (the matrix shares the
\* Arc<Mutex<..>> with whoever registered the slave) panics: the lock is
\* poisoned from then on
PoisonSlave(s) ==
    /\ ~slaves[s].poisoned
    /\ slaves' = [slaves EXCEPT ![s].poisoned = TRUE]
    /\ last' = Snapshot("poison")
    /\ UNCHANGED <<ranges, update_fns, heap, children, naccess>>
    /\ UNCHANGED sysVars

ReadAccess(name, w, addr, r) ==
    /\ naccess < MaxAccesses
    /\ naccess' = naccess + 1
    /\ slaves' = r.slaves
    /\ last' = [Snapshot(name) EXCEPT
                   !.addr = addr, !.width = w, !.res = r.res, !.value = r.value,
                   !.range = r.range, !.off = r.off]
    /\ UNCHANGED <<ranges, update_fns, heap, children>>
    /\ UNCHANGED sysVars

ReadU8(addr) == ReadAccess("read", 1, addr, read_u8(ranges, heap, slaves, addr))

ReadU16(addr) == ReadAccess("read", 2, addr, read_u16(ranges, heap, slaves, addr))

ReadU32(addr) == ReadAccess("read", 4, addr, read_u32(ranges, heap, slaves, addr))

ReadU64(addr) == ReadAccess("read", 8, addr, read_u64(ranges, heap, slaves, addr))

\* A store that runs past the end of the allocation is undefined behaviour:
\* the bytes beyond it land in the allocator's slack (no visible effect) or in
\* memory that belongs to something else (corrupt).
StoreOverruns(r) ==
    /\ r.res = "Success"
    /\ r.range # 0
    /\ ranges[r.range].kind = "Mappable"

WriteAccess(name, w, addr, data, r) ==
    /\ naccess < MaxAccesses
    /\ naccess' = naccess + 1
    /\ slaves' = r.slaves
    /\ heap' = r.heap
    /\ \E o \in {"none", "slack", "corrupt"} :
          /\ (o = "none") <=> ~(StoreOverruns(r) /\ r.off + w > ranges[r.range].size)
          /\ last' = [Snapshot(name) EXCEPT
                         !.addr = addr, !.width = w, !.data = data, !.res = r.res,
                         !.range = r.range, !.off = r.off, !.oob = o]
    /\ UNCHANGED <<ranges, update_fns, children>>
    /\ UNCHANGED sysVars

WriteU8(addr) ==
    WriteAccess("write", 1, addr, WriteData(1), write_u8(ranges, heap, slaves, addr, WriteData(1)))

WriteU16(addr) ==
    WriteAccess("write", 2, addr, WriteData(2), write_u16(ranges, heap, slaves, addr, WriteData(2)))

WriteU32(addr) ==
    WriteAccess("write", 4, addr, WriteData(4), write_u32(ranges, heap, slaves, addr, WriteData(4)))

WriteU64(addr) ==
    WriteAccess("write", 8, addr, WriteData(8), write_u64(ranges, heap, slaves, addr, WriteData(8)))

SetRange(incoming, base) ==
    LET r == set_range(ranges, heap, incoming, base) IN
    /\ naccess < MaxAccesses
    /\ naccess' = naccess + 1
    /\ heap' = r.heap
    /\ last' = [Snapshot("set_range") EXCEPT
                   !.addr = base, !.data = incoming, !.res = r.res, !.err = r.err,
                   !.range = r.range]
    /\ UNCHANGED <<ranges, update_fns, slaves, children>>
    /\ UNCHANGED sysVars

BusNext ==
    \/ \E sp \in BusSpans, prot \in Prots : AddMappableRange(sp[1], sp[2], prot)
    \/ \E sp \in BusSpans, prot \in Prots : AddMappableRangeFails(sp[1], sp[2], prot)
    \/ \E sp \in BusSpans, s \in SlaveIds : AddBusSlave(sp[1], sp[2], s)
    \/ \E a \in Addrs : ReadU8(a)
    \/ \E a \in Addrs : ReadU16(a)
    \/ \E a \in Addrs : ReadU32(a)
    \/ \E a \in Addrs : ReadU64(a)
    \/ \E a \in Addrs : WriteU8(a)
    \/ \E a \in Addrs : WriteU16(a)
    \/ \E a \in Addrs : WriteU32(a)
    \/ \E a \in Addrs : WriteU64(a)
    \/ \E b \in SetBases, inc \in Incoming : SetRange(inc, b)

FanNext ==
    \/ \E sp \in FanSpans, prot \in Prots : AddMappableRange(sp[1], sp[2], prot)
    \/ \E sp \in FanSpans, s \in SlaveIds : AddBusSlave(sp[1], sp[2], s)
    \/ \E c \in ChildIds : AddChildMatrix(c)

----------------------------------------------------------------------------
(* Claims about the bus matrix *)

\* the ranges that contain every byte of an access of width w at addr
Containing(rs, addr, w) ==
    {i \in 1..Len(rs) : rs[i].base <= addr /\ addr + w <= RangeEnd(rs[i])}

Installed == {update_fns[k] : k \in 1..Len(update_fns)}

\* C1: with non-overlapping ranges, a typed read of width w at a is served by
\* the range with base <= a and a + w <= base + size, and by no range (BusError)
\* exactly when no range satisfies this; so a read_u8 at the last byte of a
\* range is served by it.
C1_ReadServedByContainingRange ==
    (last.op = "read" /\ NonOverlapping(ranges)) =>
        LET fits == Containing(ranges, last.addr, last.width)
        IN /\ (fits # {} => last.range \in fits)
           /\ (fits = {} => last.range = 0 /\ last.res = "BusError")

\* C2: a write addressed inside a Mappable range without the write bit returns
\* BusError and changes no byte; a write to a Mappable range succeeds only if
\* the range has the write bit.
C2_WriteNeedsWriteBit ==
    last.op = "write" =>
        /\ (\E i \in 1..Len(ranges) :
               /\ ranges[i].kind = "Mappable"
               /\ ~Contains(ranges[i].prot, PROT_WRITE)
               /\ ranges[i].base <= last.addr /\ last.addr < RangeEnd(ranges[i]))
           => (last.res = "BusError" /\ heap = last.heapBefore)
        /\ (last.res = "Success" /\ last.range # 0 /\ ranges[last.range].kind = "Mappable")
           => Contains(ranges[last.range].prot, PROT_WRITE)

\* C3: whenever a typed access at a is dispatched to a range, every byte it
\* touches lies inside the range: base <= a and a + width <= base + size.
C3_DispatchWithinRange ==
    (last.op \in {"read", "write"} /\ last.range # 0) =>
        /\ ranges[last.range].base <= last.addr
        /\ last.addr + last.width <= RangeEnd(ranges[last.range])

\* C4: an add_mappable_range or add_bus_slave that succeeds after a child was
\* installed hands exactly one Add event, for the new range, to every
\* installed child.
C4_AddFansOutToChildren ==
    (last.op \in {"add_mappable_range", "add_bus_slave"} /\ last.res = "Ok") =>
        \A c \in Installed :
            children[c] = Append(last.childrenBefore[c], ranges[Len(ranges)])

FanAddrs == Addrs \cup {4127, 4128, 4142}

\* C6: add_child_matrix hands the new child one Add per range of the parent,
\* in insertion order, before it returns; the child that applied them holds
\* the parent's sequence of ranges, and every typed access and find_range on
\* it reaches the same backing at the same offset as on the parent.
C6_ChildReplay ==
    last.op = "add_child_matrix" =>
        LET c == last.child IN
        /\ c \in Installed
        /\ Len(children[c]) = Len(last.childrenBefore[c]) + Len(ranges)
        /\ children[c] = ranges
        /\ \A a \in FanAddrs, w \in Widths :
              /\ typed_read(children[c], heap, slaves, a, w)
                    = typed_read(ranges, heap, slaves, a, w)
              /\ typed_write(children[c], heap, slaves, a, 1, w, WriteData(w))
                    = typed_write(ranges, heap, slaves, a, 1, w, WriteData(w))
              /\ find_range(children[c], a, w) = find_range(ranges, a, w)

\* C6 witness: a child installed on a parent that holds a Mappable range and,
\* after it, an Mmio range
C6_Witness ==
    /\ last.op = "add_child_matrix"
    /\ Len(ranges) >= 2
    /\ ranges[1].kind = "Mappable"
    /\ ranges[2].kind = "Mmio"
    /\ children[last.child] = ranges

\* the bytes of a buffer outside [off, off + n) are those of another buffer
SameOutside(b1, b2, off, n, size) ==
    \A o \in ((DOMAIN b1.over) \cup (DOMAIN b2.over)) :
        (o < off \/ o >= off + n) => BufRead(b1, o) = BufRead(b2, o)

\* C7: set_range(bytes, base) succeeds exactly when a Mappable range has
\* range.base <= base and base + len <= range.base + range.size, and then
\* changes exactly the bytes [base, base + len) of that range; otherwise it
\* returns UnableToFindRange(base, len) and changes no byte.
C7_SetRangeExactlyWhenCovered ==
    last.op = "set_range" =>
        LET len  == Len(last.data)
            fits == {i \in Containing(ranges, last.addr, len) : ranges[i].kind = "Mappable"}
        IN /\ (last.res = "Ok") <=> (fits # {})
           /\ (last.res = "Ok") =>
                 /\ last.range \in fits
                 /\ LET r == ranges[last.range] IN
                    /\ BufReadN(heap[r.ptr], last.addr - r.base, len) = last.data
                    /\ SameOutside(heap[r.ptr], last.heapBefore[r.ptr],
                                   last.addr - r.base, len, r.size)
                    /\ heap[r.ptr].fill = last.heapBefore[r.ptr].fill
                    /\ \A p \in 1..Len(heap) : p # r.ptr => heap[p] = last.heapBefore[p]
           /\ (last.res # "Ok") =>
                 /\ last.err = <<"UnableToFindRange", last.addr, len>>
                 /\ heap = last.heapBefore

\* C7 restricted to a non-empty byte string (not a claim's formula; kept to
\* show where the code and C7 part)
SetRangeNonEmptyAsClaimed ==
    (last.op = "set_range" /\ last.data # <<>>) => C7_SetRangeExactlyWhenCovered

----------------------------------------------------------------------------
(* 32- and 64-bit quantities of the guest.  A register value or a virtual
   address v is the pair <<hi, lo>> with v = hi * 2^16 + lo and lo < 2^16, so
   that values on both sides of 2^32 are at hand (hi >= 2^16 iff v > 2^32-1). *)

Val(hi, lo) == <<hi, lo>>

FitsU32(v) == v[1] < 65536

\* v + n for a small n >= 0
ValAdd(v, n) == <<v[1] + ((v[2] + n) \div 65536), (v[2] + n) % 65536>>

\* (mutant) carries between the bits
BitOr_Carrying(a, b) == (a + b) % 65536

RECURSIVE BitOr(_, _)
BitOr(a, b) ==
    IF a = 0 THEN b
    ELSE IF b = 0 THEN a
    ELSE (IF (a % 2) + (b % 2) > 0 THEN 1 ELSE 0) + 2 * BitOr(a \div 2, b \div 2)

----------------------------------------------------------------------------
(* RegisterFile (iisa/mod.rs:154-183) *)

RegisterFile_new == [bytes |-> NewBuffer(4096, 0), pc |-> Val(0, 0)]

\* (mutant) the lane is addressed by reg * 2: neighbouring 32-bit lanes share bytes
RegisterFile_write_u32_Overlapping(regs, reg, value) ==
    LET reg_off == reg * 2
        b0 == BufWrite(regs.bytes, reg_off + 0, value[2] % 256)
        b1 == BufWrite(b0, reg_off + 1, value[2] \div 256)
        b2 == BufWrite(b1, reg_off + 2, value[1] % 256)
        b3 == BufWrite(b2, reg_off + 3, value[1] \div 256)
    IN [regs EXCEPT !.bytes = b3]

\* write_u32(reg, value): the four bytes of the lane, least significant first
RegisterFile_write_u32(regs, reg, value) ==
    LET reg_off == reg * 4
        b0 == BufWrite(regs.bytes, reg_off + 0, value[2] % 256)
        b1 == BufWrite(b0, reg_off + 1, value[2] \div 256)
        b2 == BufWrite(b1, reg_off + 2, value[1] % 256)
        b3 == BufWrite(b2, reg_off + 3, value[1] \div 256)
    IN [regs EXCEPT !.bytes = b3]

RegisterFile_read_u32(regs, reg) ==
    LET reg_off == reg * 4
    IN Val(BufRead(regs.bytes, reg_off + 2) + 256 * BufRead(regs.bytes, reg_off + 3),
           BufRead(regs.bytes, reg_off + 0) + 256 * BufRead(regs.bytes, reg_off + 1))

----------------------------------------------------------------------------
(* CpuReg (lib.rs:39-43) and the MIPS register access (mips/mod.rs:82-116),
   with gprs[r] kept in the 32-bit lane r of the register file *)

Pc == <<"Pc">>

CpuSpecific(n) == <<"CpuSpecific", n>>

REG_AT == CpuSpecific(1)

get_reg(regs, reg) ==
    IF reg[1] = "CpuSpecific" /\ reg[2] <= 31
    THEN [ok |-> TRUE, val |-> RegisterFile_read_u32(regs, reg[2]), err |-> <<>>]
    ELSE IF reg = Pc
    THEN [ok |-> TRUE, val |-> regs.pc, err |-> <<>>]
    ELSE [ok |-> FALSE, val |-> Val(0, 0), err |-> <<"GetRegUnknownReg", reg>>]

\* (mutant) the value is narrowed to 32 bits without the range check
set_reg_Truncating(regs, reg, value) ==
    LET value32 == Val(value[1] % 65536, value[2]) IN
    IF reg[1] = "CpuSpecific" /\ reg[2] <= 31
    THEN [ok |-> TRUE, regs |-> RegisterFile_write_u32(regs, reg[2], value32), err |-> <<>>]
    ELSE IF reg = Pc
    THEN [ok |-> TRUE, regs |-> [regs EXCEPT !.pc = value32], err |-> <<>>]
    ELSE [ok |-> FALSE, regs |-> regs, err |-> <<"SetRegUnknownReg", reg, value>>]

set_reg(regs, reg, value) ==
    IF ~FitsU32(value)
    THEN [ok |-> FALSE, regs |-> regs, err |-> <<"SetRegValueOutOfRange", reg, value>>]
    ELSE IF reg[1] = "CpuSpecific" /\ reg[2] <= 31
    THEN [ok |-> TRUE, regs |-> RegisterFile_write_u32(regs, reg[2], value), err |-> <<>>]
    ELSE IF reg = Pc
    THEN [ok |-> TRUE, regs |-> [regs EXCEPT !.pc = value], err |-> <<>>]
    ELSE [ok |-> FALSE, regs |-> regs, err |-> <<"SetRegUnknownReg", reg, value>>]

----------------------------------------------------------------------------
(* IISA (iisa/mod.rs:6-123) *)

R_W(n) == <<"W", n>>

R_Discard == <<"Discard">>

Src_Reg(r) == <<"Reg", r>>

Src_ImmU16(imm) == <<"ImmU16", imm>>

Src_ImmI16(imm) == <<"ImmI16", imm>>

Src_ImmU32(v) == <<"ImmU32", v>>

Src_Addr(v) == <<"Addr", v>>

\* (mutant) an Instr that always counts four guest bytes
Instr_SizeFour(op, exc, size) == [op |-> op, pred |-> "None", exc |-> exc, size |-> 4]

\* Instr{op, pred: None, exc, size}; op is the opcode with its operand bundle
Instr(op, exc, size) == [op |-> op, pred |-> "None", exc |-> exc, size |-> size]

Op_DstSrcSrc(name, dst, s1, s2) == [name |-> name, dst |-> dst, src |-> <<s1, s2>>]

Op_DstSrc(name, dst, s1) == [name |-> name, dst |-> dst, src |-> <<s1>>]

Op_SrcSrcSrc(name, s1, s2, s3) == [name |-> name, dst |-> <<>>, src |-> <<s1, s2, s3>>]

Op_B(cond, s1, s2, target) == [name |-> "B", cond |-> cond, dst |-> <<>>, src |-> <<s1, s2>>, target |-> target]

----------------------------------------------------------------------------
(* The interpreter (iisa/mod.rs:136-152) *)

\* the one arm of the match: Or(W(dst), [Reg(W(src)), ImmU16(imm)])
IsOrWWImmU16(op) ==
    /\ op.name = "Or"
    /\ op.dst[1] = "W"
    /\ op.src[1][1] = "Reg" /\ op.src[1][2][1] = "W"
    /\ op.src[2][1] = "ImmU16"

RECURSIVE interpret_op_list(_, _)
interpret_op_list(instrs, regs) ==
    IF instrs = <<>> THEN [ok |-> TRUE, regs |-> regs, err |-> <<>>]
    ELSE LET instr == Head(instrs) IN
         IF IsOrWWImmU16(instr.op)
         THEN LET src    == RegisterFile_read_u32(regs, instr.op.src[1][2][2])
                  result == Val(src[1], BitOr(src[2], instr.op.src[2][2]))
                  r1     == RegisterFile_write_u32(regs, instr.op.dst[2], result)
                  r2     == [r1 EXCEPT !.pc = ValAdd(r1.pc, instr.size)]
              IN interpret_op_list(Tail(instrs), r2)
         ELSE [ok |-> FALSE, regs |-> regs, err |-> <<"Unimplemented", instr.op.name, regs.pc>>]

----------------------------------------------------------------------------
(* The MIPS translator (mips/translate.rs) *)

PAGE_SIZE == 4096

MipsTranslator(arch, big_endian) == [arch |-> arch, big_endian |-> big_endian]

isa_for_arch(arch) == IF arch = "VR4300" THEN "Mips64" ELSE "Mips32"

\* (mutant) GPR 0 is named like every other destination
dest_gpr_Plain(gpr_num) == R_W(gpr_num)

dest_gpr(gpr_num) == IF gpr_num = 0 THEN R_Discard ELSE R_W(gpr_num)

src_gpr(gpr_num) == IF gpr_num = 0 THEN Src_ImmU32(Val(0, 0)) ELSE Src_Reg(R_W(gpr_num))

sw_src(gpr_num) == IF gpr_num = 0 THEN Src_ImmU32(Val(0, 0)) ELSE Src_Reg(R_W(gpr_num))

\* a slice of host memory: len bytes of buffer buf from offset start
Slice(buf, start, len) == [buf |-> buf, start |-> start, len |-> len]

SliceFrom(sl, n) == [sl EXCEPT !.start = @ + n, !.len = @ - n]

SliceByte(sl, k) == BufRead(sl.buf, sl.start + k)

SignExt16(imm) == IF imm >= 32768 THEN imm - 65536 ELSE imm

\* The opcode decoder the translator calls (opcode::mips::decode_buf, an
\* external crate): the 32-bit word is assembled from four bytes in the order
\* the big_endian option gives, and its fields are taken as the MIPS I
\* encoding lays them out.  A slice shorter than one word is an error, which
\* the caller unwraps.
decode_buf(sl, big_endian) ==
    IF sl.len < 4 THEN [ok |-> FALSE, mne |-> "none", rs |-> 0, rt |-> 0, rd |-> 0, imm |-> 0]
    ELSE LET b(k) == SliceByte(sl, k)
             hi == IF big_endian THEN 256 * b(0) + b(1) ELSE 256 * b(3) + b(2)
             lo == IF big_endian THEN 256 * b(2) + b(3) ELSE 256 * b(1) + b(0)
             opc == hi \div 1024
             funct == lo % 64
             shamt == (lo \div 64) % 32
             mne == CASE opc = 9 -> "Addiu"
                      [] opc = 13 -> "Ori"
                      [] opc = 15 /\ (hi \div 32) % 32 = 0 -> "Lui"
                      [] opc = 43 -> "Sw"
                      [] opc = 4 -> "Beq"
                      [] opc = 0 /\ funct = 33 /\ shamt = 0 -> "Addu"
                      [] OTHER -> "Other"
         IN [ok |-> TRUE, mne |-> mne, rs |-> (hi \div 32) % 32, rt |-> hi % 32,
             rd |-> lo \div 2048, imm |-> lo]

\* (mutant) the target is taken relative to the branch, not to its delay slot
BranchTarget_FromBranch(base, offset) ==
    LET t == base[2] + offset
    IN Val((base[1] + (t \div 65536)) % 65536, t % 65536)

\* ((base as i64) + offset + 4) as u64 & 0xFFFFFFFF
BranchTarget(base, offset) ==
    LET t == base[2] + offset + 4
    IN Val((base[1] + (t \div 65536)) % 65536, t % 65536)

DecodePanic == [ok |-> FALSE, panic |-> TRUE, instrs |-> <<>>, err |-> <<>>, depth |-> 1]

\* (mutant) an error that is unwrapped
DecodeErr_Unwrapped(why) == DecodePanic

\* what a call of decode_mips32 comes to; depth counts the calls of
\* decode_mips32 on the stack at its deepest, the call itself included
DecodeErr(why) ==
    [ok |-> FALSE, panic |-> FALSE, instrs |-> <<>>, err |-> <<"Decode", why>>, depth |-> 1]

DecodeOk(instrs) == [ok |-> TRUE, panic |-> FALSE, instrs |-> instrs, err |-> <<>>, depth |-> 1]

\* the result r of a call that has made the call whose result is inner
Calling(inner, r) == [r EXCEPT !.depth = 1 + inner.depth]

\* uarch_opts_for_arch(arch) is Some
uarch_opts_for_arch(arch) == arch \in {"R2000", "Sys161"}

RECURSIVE decode_mips32(_, _, _, _, _)
decode_mips32(arch, base, buffer, big_endian, in_delay_slot) ==
    LET op == decode_buf(buffer, big_endian) IN
    \* both results are unwrapped: a None or an Err panics
    IF ~uarch_opts_for_arch(arch) \/ ~op.ok THEN DecodePanic
    ELSE CASE op.mne = "Addiu" ->
                DecodeOk(<<Instr(Op_DstSrcSrc("Add", dest_gpr(op.rt), src_gpr(op.rs),
                                              Src_ImmI16(SignExt16(op.imm))), 0, 4)>>)
           [] op.mne = "Ori" ->
                DecodeOk(<<Instr(Op_DstSrcSrc("Or", dest_gpr(op.rt), src_gpr(op.rs),
                                              Src_ImmU16(op.imm)), 0, 4)>>)
           [] op.mne = "Addu" ->
                DecodeOk(<<Instr(Op_DstSrcSrc("Add", dest_gpr(op.rd), src_gpr(op.rs),
                                              src_gpr(op.rt)), 0, 4)>>)
           [] op.mne = "Beq" ->
                IF in_delay_slot THEN DecodeErr("Branch while in delay slot")
                ELSE LET other_instr == decode_mips32(arch, ValAdd(base, 4),
                                                      SliceFrom(buffer, 4), big_endian, TRUE)
                         branch_target == BranchTarget(base, 4 * SignExt16(op.imm))
                         branch_instr == Op_B("Eq", src_gpr(op.rs), src_gpr(op.rt),
                                              Src_Addr(branch_target))
                     IN Calling(other_instr,
                                IF ~other_instr.ok THEN other_instr
                                ELSE DecodeOk(<<Instr(other_instr.instrs[1].op, 1, 0),
                                                Instr(branch_instr, 2, 8)>>))
           [] op.mne = "Lui" ->
                DecodeOk(<<Instr(Op_DstSrc("Ld", dest_gpr(op.rt), Src_ImmU32(Val(op.imm, 0))), 0, 4)>>)
           [] op.mne = "Sw" ->
                DecodeOk(<<Instr(Op_SrcSrcSrc("Sw", sw_src(op.rt), Src_ImmI16(SignExt16(op.imm)),
                                              src_gpr(op.rs)), 0, 4)>>)
           [] OTHER -> DecodeErr("mips32 decode Unimplemented")

decode_mips64(arch, base, buffer) == DecodeErr("mips64 decode Unimplemented")

\* (mutant) the translator's byte order is not handed on: big-endian always
decode_AlwaysBigEndian(translator, base, buffer) ==
    IF isa_for_arch(translator.arch) = "Mips32"
    THEN decode_mips32(translator.arch, base, buffer, TRUE, FALSE)
    ELSE decode_mips64(translator.arch, base, buffer)

\* MipsTranslator::decode (translate.rs:146-153)
decode(translator, base, buffer) ==
    IF isa_for_arch(translator.arch) = "Mips32"
    THEN decode_mips32(translator.arch, base, buffer, translator.big_endian, FALSE)
    ELSE decode_mips64(translator.arch, base, buffer)

\* Translator::virtual_to_phys of the MIPS adapter: the KSEG0/KSEG1 windows
\* 0x80000000..0xBFFFFFFF map to addr & 0x1FFFFFFF, every other address is
\* not mappable
virtual_to_phys(regs, addr) ==
    IF addr[1] >= 32768 /\ addr[1] < 49152
    THEN [some |-> TRUE, phys |-> (addr[1] % 8192) * 65536 + addr[2]]
    ELSE [some |-> FALSE, phys |-> 0]

----------------------------------------------------------------------------
(* Page and Backend::single_step (executor.rs:107-135, 208-223) *)

StepOk(regs) == [ok |-> TRUE, panic |-> FALSE, regs |-> regs, err |-> <<>>]

StepErr(regs, err) == [ok |-> FALSE, panic |-> FALSE, regs |-> regs, err |-> err]

StepPanic(regs) == [ok |-> FALSE, panic |-> TRUE, regs |-> regs, err |-> <<>>]

\* reg.pc & !(PAGE_SIZE - 1)
PageVirtBase(pc) == Val(pc[1], pc[2] - (pc[2] % PAGE_SIZE))

Page_single_step(page_base, data, regs, translator) ==
    LET offset == regs.pc[2] - page_base[2] IN
    IF offset > (PAGE_SIZE - 1) THEN StepErr(regs, <<"InvalidPC">>)
    ELSE LET d == decode(translator, regs.pc, SliceFrom(data, offset)) IN
         IF d.panic THEN StepPanic(regs)
         ELSE IF ~d.ok THEN StepErr(regs, d.err)
         ELSE LET i == interpret_op_list(d.instrs, regs)
              IN IF i.ok THEN StepOk(i.regs) ELSE StepErr(i.regs, i.err)

single_step(fsb, hp, regs, translator) ==
    LET page_virt_base == PageVirtBase(regs.pc)
        v2p == virtual_to_phys(regs, page_virt_base)
    IN IF ~v2p.some THEN StepErr(regs, <<"VirtualAddrNotMappable", page_virt_base>>)
       ELSE LET f == find_range(fsb, v2p.phys, PAGE_SIZE) IN
            IF ~f.ok THEN StepErr(regs, f.err)
            ELSE Page_single_step(page_virt_base, Slice(hp[f.ptr], f.off, PAGE_SIZE),
                                  regs, translator)

----------------------------------------------------------------------------
(* Results, messages and the Backend (lib.rs:34-66, executor.rs:26-34, 137-206) *)

MaxCpus == 2
MaxHooks == 1
MaxSteps == 1

CpuIds == 1..MaxCpus

Ok(v) == [ok |-> TRUE, val |-> v, err |-> <<>>]

Err(e) == [ok |-> FALSE, val |-> <<>>, err |-> e]

CodeHookSignalledStop == <<"CodeHookSignalledStop">>

Msg(type, range, reg, value, hook) ==
    [type |-> type, range |-> range, reg |-> reg, value |-> value, hook |-> hook]

Message_Shutdown == Msg("Shutdown", <<>>, <<>>, <<>>, <<>>)

Message_FsbUpdateOp(range) == Msg("FsbUpdateOp", range, <<>>, <<>>, <<>>)

Message_SetReg(reg, value) == Msg("SetReg", <<>>, reg, value, <<>>)

Message_GetReg(reg) == Msg("GetReg", <<>>, reg, <<>>, <<>>)

Message_AddBlockHookAll(hook) == Msg("AddBlockHookAll", <<>>, <<>>, <<>>, hook)

Message_AddCodeHookSingle(hook) == Msg("AddCodeHookSingle", <<>>, <<>>, <<>>, hook)

Message_Execute == Msg("Execute", <<>>, <<>>, <<>>, <<>>)

BlockHook(hint) == [hint |-> hint]

CodeHook(base, hint) == [base |-> base, hint |-> hint]

\* Backend::new; the fsb field of worker c is children[c]
Backend_new(translator) ==
    [translator |-> translator,
     registers |-> RegisterFile_new,
     hooks_on_all |-> <<>>,
     code_hooks_on_single |-> <<>>,
     execution_state |-> "Paused"]

Processed(b, fsb, signal, result, running) ==
    [backend |-> b, fsb |-> fsb, signal |-> signal, result |-> result, running |-> running]

\* (mutant) SetReg answers Ok and leaves the registers as they were
process_message_StaleSetReg(b, fsb, msg) ==
    CASE msg.type = "Shutdown" -> Processed(b, fsb, TRUE, Ok(<<>>), FALSE)
      [] msg.type = "FsbUpdateOp" ->
            Processed(b, apply_update_op(fsb, msg.range), TRUE, Ok(<<>>), TRUE)
      [] msg.type = "GetReg" ->
            LET g == get_reg(b.registers, msg.reg)
            IN Processed(b, fsb, TRUE, IF g.ok THEN Ok(g.val) ELSE Err(g.err), TRUE)
      [] msg.type = "SetReg" ->
            LET r == set_reg(b.registers, msg.reg, msg.value)
            IN Processed(b, fsb, TRUE, IF r.ok THEN Ok(<<>>) ELSE Err(r.err), TRUE)
      [] msg.type = "AddBlockHookAll" ->
            Processed([b EXCEPT !.hooks_on_all = Append(@, msg.hook)], fsb, TRUE, Ok(<<>>), TRUE)
      [] msg.type = "AddCodeHookSingle" ->
            Processed([b EXCEPT !.code_hooks_on_single = Append(@, msg.hook)], fsb, TRUE, Ok(<<>>), TRUE)
      [] msg.type = "Execute" ->
            Processed([b EXCEPT !.execution_state = "Executing"], fsb, FALSE, Ok(<<>>), TRUE)

\* process_message: the new backend and bus view, whether the message's
\* promise is signalled and with what, and the value returned (keep running)
process_message(b, fsb, msg) ==
    CASE msg.type = "Shutdown" -> Processed(b, fsb, TRUE, Ok(<<>>), FALSE)
      [] msg.type = "FsbUpdateOp" ->
            Processed(b, apply_update_op(fsb, msg.range), TRUE, Ok(<<>>), TRUE)
      [] msg.type = "GetReg" ->
            LET g == get_reg(b.registers, msg.reg)
            IN Processed(b, fsb, TRUE, IF g.ok THEN Ok(g.val) ELSE Err(g.err), TRUE)
      [] msg.type = "SetReg" ->
            LET r == set_reg(b.registers, msg.reg, msg.value)
            IN Processed([b EXCEPT !.registers = r.regs], fsb, TRUE,
                         IF r.ok THEN Ok(<<>>) ELSE Err(r.err), TRUE)
      [] msg.type = "AddBlockHookAll" ->
            Processed([b EXCEPT !.hooks_on_all = Append(@, msg.hook)], fsb, TRUE, Ok(<<>>), TRUE)
      [] msg.type = "AddCodeHookSingle" ->
            Processed([b EXCEPT !.code_hooks_on_single = Append(@, msg.hook)], fsb, TRUE, Ok(<<>>), TRUE)
      [] msg.type = "Execute" ->
            Processed([b EXCEPT !.execution_state = "Executing"], fsb, FALSE, Ok(<<>>), TRUE)

\* The hooks Backend::execute calls around one single_step, in call order:
\* neither execute nor single_step nor Page::single_step calls any
HooksCalled(b, pc) == <<>>

----------------------------------------------------------------------------
(* Inputs to the System facade (those of examples/mips_example.rs and a few
   around them) *)

ROM_BASE == 532676608
ROM_SIZE == 262144

\* ROM_BASE + 0xA0000000 = 0xBFC00000
ROM_VIRT == Val(49088, 0)

\* ori $at, $at, 0x3456 in big-endian and in little-endian byte order
MIPS_CODE_EB == <<52, 33, 52, 86>>

MIPS_CODE_EL == <<86, 52, 33, 52>>

CPU_ENDIAN_BIG == 1
CPU_ENDIAN_LITTLE == 0

SysSpans == { <<ROM_BASE, ROM_SIZE>> }
SysCode == { MIPS_CODE_EB, MIPS_CODE_EL }
CpuOpts == { CPU_ENDIAN_BIG, CPU_ENDIAN_LITTLE }
Archs == { "R2000" }
\* cookies handed to the facade: every handle a System of MaxCpus CPUs can
\* issue, and one it cannot
Cookies == 0..MaxCpus
Regs == { Pc, REG_AT }
\* 0x6789 and ROM_VIRT
RegValues == { Val(0, 26505), ROM_VIRT }
\* the example's block hook
BlockHints == { "ContinueExecution" }
\* code hooks at the virtual address of the ROM, and the example's, which is
\* at its physical address
CodeHooks == { CodeHook(ROM_VIRT, "StopExecution"), CodeHook(ROM_VIRT, "ContinueExecution"),
              CodeHook(Val(8128, 0), "StopExecution") }

----------------------------------------------------------------------------
(* mips_cpu_factory (mips/mod.rs:63-67) *)

mips_cpu_factory(opts, arch) == MipsTranslator(arch, (opts % 2) = CPU_ENDIAN_BIG)

----------------------------------------------------------------------------
(* The host thread and the worker threads *)

NoArg == [cpu |-> 0, reg |-> <<>>, value |-> <<>>]

Idle == [pc |-> "idle", op |-> "none", todo |-> <<>>, arg |-> NoArg, acc |-> Ok(<<>>)]

NoFuture == [st |-> "none", val |-> Ok(<<>>)]

NoRet == [op |-> "none", cpu |-> 0, reg |-> <<>>, res |-> Ok(<<>>)]

NoView == [r \in Regs |-> [set |-> FALSE, val |-> Val(0, 0), over |-> FALSE]]

\* no library function has been called directly
NoCall == [fn |-> "none", translator |-> <<>>, base |-> <<>>, buffer |-> <<>>,
           block |-> <<>>, regs |-> <<>>, reg |-> <<>>, value |-> <<>>, out |-> <<>>,
           then |-> <<>>]

\* System::new (lib.rs:138-143): no CPU, no worker thread
SysInit ==
    /\ cpus = <<>>
    /\ next_cpu_handle = 0
    /\ chan = [c \in CpuIds |-> <<>>]
    /\ backend = [c \in CpuIds |-> Backend_new(MipsTranslator("R2000", FALSE))]
    /\ wpc = [c \in CpuIds |-> "unborn"]
    /\ future = NoFuture
    /\ host = Idle
    /\ ret = NoRet
    /\ view = [c \in CpuIds |-> NoView]
    /\ steps = [c \in CpuIds |-> 0]

Init ==
    /\ BusInit
    /\ SysInit
    /\ call = NoCall

\* a bus matrix under typed accesses and bulk installs
SpecBus == Init /\ [][BusNext]_vars

\* a bus matrix and its child matrices
SpecFan == Init /\ [][FanNext]_vars

\* (mutant) a send that queues the message whether or not the receiver is alive
Send_Unconditional(c, msg) ==
    /\ future' = [st |-> "pending", val |-> Ok(<<>>)]
    /\ chan' = [chan EXCEPT ![c] = Append(@, msg)]

\* Sender::send followed by nothing else: the message is queued, or, when the
\* receiver is gone, dropped together with its promise
Send(c, msg) ==
    IF wpc[c] \in {"exited", "panicked"}
    THEN /\ future' = [st |-> "lost", val |-> Ok(<<>>)]
         /\ chan' = chan
    ELSE /\ future' = [st |-> "pending", val |-> Ok(<<>>)]
         /\ chan' = [chan EXCEPT ![c] = Append(@, msg)]

\* the facade call op returns r to the caller
Return(op, arg, r) ==
    /\ ret' = [op |-> op, cpu |-> arg.cpu, reg |-> arg.reg, res |-> r]
    /\ host' = Idle
    /\ view' = CASE op = "set_cpu_reg" /\ r.ok ->
                      [view EXCEPT ![arg.cpu][arg.reg] =
                          [set |-> TRUE, val |-> arg.value,
                           over |-> @.set /\ @.val # arg.value]]
                 [] op = "execute" -> [view EXCEPT ![arg.cpu] = NoView]
                 [] OTHER -> view

\* (mutant) register_cpu_no_throw without the increment of next_cpu_handle
Finish_ReusingHandle(op, arg, acc) ==
    IF op = "register_cpu"
    THEN /\ update_fns' = Append(update_fns, arg.cpu)
         /\ cpus' = Append(cpus, arg.cpu)
         /\ next_cpu_handle' = next_cpu_handle
         /\ Return(op, arg, Ok(<<"CpuCookie", next_cpu_handle>>))
    ELSE IF op = "drop"
    THEN /\ host' = [Idle EXCEPT !.pc = "dropped"]
         /\ UNCHANGED <<update_fns, cpus, next_cpu_handle, ret, view>>
    ELSE /\ Return(op, arg, acc)
         /\ UNCHANGED <<update_fns, cpus, next_cpu_handle>>

\* the facade call has made all its Cpu calls; acc is what the last one returned
Finish(op, arg, acc) ==
    IF op = "register_cpu"
    THEN \* add_child_matrix pushes the update_fn, register_cpu_no_throw the Cpu
         /\ update_fns' = Append(update_fns, arg.cpu)
         /\ cpus' = Append(cpus, arg.cpu)
         /\ next_cpu_handle' = next_cpu_handle + 1
         /\ Return(op, arg, Ok(<<"CpuCookie", next_cpu_handle>>))
    ELSE IF op = "drop"
    THEN /\ host' = [Idle EXCEPT !.pc = "dropped"]
         /\ UNCHANGED <<update_fns, cpus, next_cpu_handle, ret, view>>
    ELSE /\ Return(op, arg, acc)
         /\ UNCHANGED <<update_fns, cpus, next_cpu_handle>>

To(c, msg) == [to |-> c, msg |-> msg]

\* one message per registered CPU, in the order of the cpus map
ToAll(msg) == [i \in 1..Len(cpus) |-> To(cpus[i], msg)]

\* the facade call goes on with the Cpu calls it has yet to make, each one a
\* message sent and a wait for its future
Proceed(op, arg, todo, acc) ==
    IF todo # <<>>
    THEN /\ Send(Head(todo).to, Head(todo).msg)
         /\ host' = [pc |-> "wait", op |-> op, todo |-> Tail(todo), arg |-> arg, acc |-> acc]
         /\ UNCHANGED <<update_fns, cpus, next_cpu_handle, ret, view>>
    ELSE /\ future' = NoFuture
         /\ chan' = chan
         /\ Finish(op, arg, acc)

\* System::get_cpu
get_cpu(cookie) ==
    IF cookie + 1 \in DOMAIN cpus THEN Ok(cpus[cookie + 1]) ELSE Err(<<"InvalidCpuCookie">>)

----------------------------------------------------------------------------
(* The System facade (lib.rs:137-212) *)

\* add_mappable_range: the root matrix's add_mappable_range and nothing else
System_add_mappable_range(prot, base, size, alloc) ==
    /\ host.pc = "idle"
    /\ CallerKeepsRangesApart(base, size)
    /\ IF alloc = "fails"
       THEN /\ UNCHANGED <<heap, ranges>>
            /\ Return("add_mappable_range", NoArg, Err(<<"MemAllocation">>))
       ELSE /\ \E fill \in FillBytes : heap' = Append(heap, NewBuffer(size, fill))
            /\ ranges' = add_mappable_range(ranges, base, size, Len(heap) + 1, prot)
            /\ Return("add_mappable_range", NoArg, Ok(<<>>))
    /\ UNCHANGED <<update_fns, slaves, children, naccess, last>>
    /\ UNCHANGED <<cpus, next_cpu_handle, chan, backend, wpc, future, steps, call>>

System_set_range(incoming, base_addr) ==
    LET r == set_range(ranges, heap, incoming, base_addr) IN
    /\ host.pc = "idle"
    /\ heap' = r.heap
    /\ Return("set_range", NoArg, IF r.res = "Ok" THEN Ok(<<>>) ELSE Err(r.err))
    /\ UNCHANGED <<ranges, update_fns, slaves, children, naccess, last>>
    /\ UNCHANGED <<cpus, next_cpu_handle, chan, backend, wpc, future, steps, call>>

\* register_cpu: create_cpu -> mips_cpu_factory -> executor spawns the worker
\* and calls fsb.add_child_matrix, whose update_fn sends one FsbUpdateOp per
\* range of the root matrix and waits for each
System_register_cpu(opts, arch) ==
    LET c == Len(update_fns) + 1 IN
    /\ host.pc = "idle"
    /\ c \in CpuIds
    /\ wpc' = [wpc EXCEPT ![c] = "loop"]
    /\ backend' = [backend EXCEPT ![c] = Backend_new(mips_cpu_factory(opts, arch))]
    /\ Proceed("register_cpu", [NoArg EXCEPT !.cpu = c],
               [i \in 1..Len(ReplayedEvents(ranges)) |->
                   To(c, Message_FsbUpdateOp(ReplayedEvents(ranges)[i]))],
               Ok(<<>>))
    /\ UNCHANGED <<ranges, heap, slaves, children, naccess, last, steps, call>>

\* a call on one CPU, made while no other facade call is under way (&mut self):
\* InvalidCpuCookie at once, or one message to its worker
CpuCall(op, cookie, reg, value, msg) ==
    LET g == get_cpu(cookie) IN
    /\ IF g.ok
       THEN Proceed(op, [cpu |-> g.val, reg |-> reg, value |-> value],
                    <<To(g.val, msg)>>, Ok(<<>>))
       ELSE /\ Return(op, NoArg, Err(g.err))
            /\ UNCHANGED <<update_fns, cpus, next_cpu_handle, chan, future>>
    /\ UNCHANGED <<ranges, heap, slaves, children, naccess, last>>
    /\ UNCHANGED <<backend, wpc, steps, call>>

System_set_cpu_reg(cookie, reg, value) ==
    /\ host.pc = "idle"
    /\ CpuCall("set_cpu_reg", cookie, reg, value, Message_SetReg(reg, value))

System_get_cpu_reg(cookie, reg) ==
    /\ host.pc = "idle"
    /\ CpuCall("get_cpu_reg", cookie, reg, <<>>, Message_GetReg(reg))

System_execute(cookie) ==
    /\ host.pc = "idle"
    /\ \A c \in CpuIds : steps[c] < MaxSteps
    /\ CpuCall("execute", cookie, <<>>, <<>>, Message_Execute)

\* a call on every CPU in turn, given up at the first error (try!)
AllCpusCall(op, msg) ==
    /\ host.pc = "idle"
    /\ Proceed(op, NoArg, ToAll(msg), Ok(<<>>))
    /\ UNCHANGED <<ranges, heap, slaves, children, naccess, last>>
    /\ UNCHANGED <<backend, wpc, steps, call>>

System_add_block_hook_all(hint) ==
    /\ \A c \in CpuIds : Len(backend[c].hooks_on_all) < MaxHooks
    /\ AllCpusCall("add_block_hook_all", Message_AddBlockHookAll(BlockHook(hint)))

System_add_code_hook_single(base, hint) ==
    /\ \A c \in CpuIds : Len(backend[c].code_hooks_on_single) < MaxHooks
    /\ AllCpusCall("add_code_hook_single", Message_AddCodeHookSingle(CodeHook(base, hint)))

\* Drop: shutdown() on every CPU in turn, results ignored
System_drop == AllCpusCall("drop", Message_Shutdown)

\* Future::wait returns the signalled result, or PromiseLost; the facade call
\* gives up on an error (try!) or goes on
HostWait ==
    LET r == IF future.st = "ready" THEN future.val ELSE Err(<<"PromiseLost">>) IN
    /\ host.pc = "wait"
    /\ future.st \in {"ready", "lost"}
    /\ IF ~r.ok /\ host.op \notin {"register_cpu", "drop"}
       THEN /\ Return(host.op, host.arg, r)
            /\ future' = NoFuture
            /\ UNCHANGED <<update_fns, cpus, next_cpu_handle, chan>>
       ELSE Proceed(host.op, host.arg, host.todo, r)
    /\ UNCHANGED <<ranges, heap, slaves, children, naccess, last>>
    /\ UNCHANGED <<backend, wpc, steps, call>>

----------------------------------------------------------------------------
(* Backend::execute, the worker's loop (executor.rs:225-265) *)

\* every Sender of the worker's channel is gone: the System was dropped
Disconnected == host.pc = "dropped"

Exit(c) ==
    /\ wpc' = [wpc EXCEPT ![c] = "exited"]
    /\ chan' = [chan EXCEPT ![c] = <<>>]

\* a panic unwinds the worker thread: the Receiver is dropped, and with it
\* every message still queued
Panic(c) ==
    /\ wpc' = [wpc EXCEPT ![c] = "panicked"]
    /\ chan' = [chan EXCEPT ![c] = <<>>]

\* process_message(msg) on the message at the head of the channel
Deliver(c) ==
    LET p == process_message(backend[c], children[c], Head(chan[c])) IN
    /\ backend' = [backend EXCEPT ![c] = p.backend]
    /\ children' = [children EXCEPT ![c] = p.fsb]
    /\ future' = IF p.signal THEN [st |-> "ready", val |-> p.result] ELSE future
    /\ IF p.running
       THEN /\ wpc' = [wpc EXCEPT ![c] = "loop"]
            /\ chan' = [chan EXCEPT ![c] = Tail(@)]
       ELSE Exit(c)

\* Paused: rx.recv(), then process_message
WorkerRecv(c) ==
    /\ wpc[c] = "loop"
    /\ backend[c].execution_state = "Paused"
    /\ IF chan[c] # <<>>
       THEN Deliver(c)
       ELSE /\ Disconnected
            /\ Exit(c)
            /\ UNCHANGED <<backend, children, future>>
    /\ UNCHANGED <<ranges, update_fns, heap, slaves, naccess, last>>
    /\ UNCHANGED <<cpus, next_cpu_handle, host, ret, view, steps, call>>

\* Executing(promise): single_step, signal the promise, become Paused
WorkerStep(c) ==
    LET b == backend[c]
        r == single_step(children[c], heap, b.registers, b.translator)
    IN
    /\ wpc[c] = "loop"
    /\ b.execution_state = "Executing"
    /\ IF r.panic
       THEN /\ Panic(c)
            /\ future' = [st |-> "lost", val |-> Ok(<<>>)]
            /\ UNCHANGED <<backend, steps>>
       ELSE /\ future' = [st |-> "ready",
                          val |-> IF r.ok THEN Ok(CodeHookSignalledStop) ELSE Err(r.err)]
            /\ backend' = [backend EXCEPT ![c] = [b EXCEPT !.registers = r.regs,
                                                           !.execution_state = "Paused"]]
            /\ wpc' = [wpc EXCEPT ![c] = "poll"]
            /\ steps' = [steps EXCEPT ![c] = @ + 1]
            /\ UNCHANGED chan
    /\ UNCHANGED busVars
    /\ UNCHANGED <<cpus, next_cpu_handle, host, ret, view, call>>

\* (mutant) a poll that takes the message off the channel and drops it with
\* its promise, instead of handing it to process_message
WorkerPoll_Discarding(c) ==
    /\ wpc[c] = "poll"
    /\ IF chan[c] # <<>>
       THEN /\ chan' = [chan EXCEPT ![c] = Tail(@)]
            /\ wpc' = [wpc EXCEPT ![c] = "loop"]
            /\ future' = [st |-> "lost", val |-> Ok(<<>>)]
            /\ UNCHANGED <<backend, children>>
       ELSE /\ IF Disconnected THEN Exit(c)
               ELSE wpc' = [wpc EXCEPT ![c] = "loop"] /\ UNCHANGED chan
            /\ UNCHANGED <<backend, children, future>>
    /\ UNCHANGED <<ranges, update_fns, heap, slaves, naccess, last>>
    /\ UNCHANGED <<cpus, next_cpu_handle, host, ret, view, steps, call>>

\* after a step: rx.try_recv(), then process_message if there is a message
WorkerPoll(c) ==
    /\ wpc[c] = "poll"
    /\ IF chan[c] # <<>>
       THEN Deliver(c)
       ELSE /\ IF Disconnected THEN Exit(c)
               ELSE wpc' = [wpc EXCEPT ![c] = "loop"] /\ UNCHANGED chan
            /\ UNCHANGED <<backend, children, future>>
    /\ UNCHANGED <<ranges, update_fns, heap, slaves, naccess, last>>
    /\ UNCHANGED <<cpus, next_cpu_handle, host, ret, view, steps, call>>

\* the state the example is in after add_mappable_range(PROT_ALL, ROM_BASE,
\* ROM_SIZE), set_range(code, ROM_BASE) and register_cpu(opts, R2000), built
\* with the operations these calls perform
Booted(fill, code, opts) ==
    LET rs == add_mappable_range(<<>>, ROM_BASE, ROM_SIZE, 1, PROT_ALL) IN
    /\ ranges = rs
    /\ heap = set_range(rs, <<NewBuffer(ROM_SIZE, fill)>>, code, ROM_BASE).heap
    /\ update_fns = <<1>>
    /\ children = [c \in ChildIds |-> IF c = 1 THEN ApplyAll(<<>>, ReplayedEvents(rs)) ELSE <<>>]
    /\ slaves = [s \in SlaveIds |-> NewSlave]
    /\ naccess = 0
    /\ last = NoLast
    /\ cpus = <<1>>
    /\ next_cpu_handle = 1
    /\ chan = [c \in CpuIds |-> <<>>]
    /\ backend = [c \in CpuIds |->
                    Backend_new(IF c = 1 THEN mips_cpu_factory(opts, "R2000")
                                ELSE MipsTranslator("R2000", FALSE))]
    /\ wpc = [c \in CpuIds |-> IF c = 1 THEN "loop" ELSE "unborn"]
    /\ future = NoFuture
    /\ host = Idle
    /\ ret = [op |-> "register_cpu", cpu |-> 1, reg |-> <<>>, res |-> Ok(<<"CpuCookie", 0>>)]
    /\ view = [c \in CpuIds |-> NoView]
    /\ steps = [c \in CpuIds |-> 0]
    /\ call = NoCall

InitBooted == \E fill \in FillBytes, code \in SysCode, opts \in CpuOpts : Booted(fill, code, opts)

ViewNext ==
    \/ \E sp \in SysSpans, alloc \in {"ok", "fails"} :
          System_add_mappable_range(PROT_ALL, sp[1], sp[2], alloc)
    \/ \E inc \in SysCode : System_set_range(inc, ROM_BASE)
    \/ \E opts \in CpuOpts, arch \in Archs : System_register_cpu(opts, arch)
    \/ \E k \in Cookies : System_set_cpu_reg(k, Pc, ROM_VIRT)
    \/ \E k \in Cookies : System_execute(k)
    \/ \E hint \in BlockHints : System_add_block_hook_all(hint)
    \/ System_drop
    \/ HostWait
    \/ \E c \in CpuIds : WorkerRecv(c)
    \/ \E c \in CpuIds : WorkerStep(c)
    \/ \E c \in CpuIds : WorkerPoll(c)

\* a System from its construction: memory, CPUs, block hooks, execution and teardown
SpecView == Init /\ [][ViewNext]_vars

SysNext ==
    \/ \E k \in Cookies, reg \in Regs, v \in RegValues : System_set_cpu_reg(k, reg, v)
    \/ \E k \in Cookies, reg \in Regs : System_get_cpu_reg(k, reg)
    \/ \E k \in Cookies : System_execute(k)
    \/ \E hook \in CodeHooks : System_add_code_hook_single(hook.base, hook.hint)
    \/ HostWait
    \/ \E c \in CpuIds : WorkerRecv(c)
    \/ \E c \in CpuIds : WorkerStep(c)
    \/ \E c \in CpuIds : WorkerPoll(c)

\* a System set up as the example sets it up: registers, code hooks and execution
SpecSys == InitBooted /\ [][SysNext]_vars

\* addiu $gp, $gp, -12272 (0x279cd010) in big-endian byte order
MIPS_ADDIU_EB == <<39, 156, 208, 16>>

\* beq $a2, $at, +12 (0x10c10003) with ori $at, $at, 0x3456 in its delay
\* slot, in big-endian byte order
MIPS_BEQ_ORI_EB == <<16, 193, 0, 3, 52, 33, 52, 86>>

ExecCode == SysCode \cup { MIPS_ADDIU_EB, MIPS_BEQ_ORI_EB }

\* 0x6789, outside every translated segment; 0x80000000, translated to a
\* physical page no range covers; ROM_VIRT; and ROM_VIRT + 0xFFD, three bytes
\* before the end of its page
ExecPcs == { Val(0, 26505), Val(32768, 0), ROM_VIRT, Val(49088, 4093) }

InitExec == \E fill \in FillBytes, code \in ExecCode, opts \in CpuOpts : Booted(fill, code, opts)

ExecNext ==
    \/ \E k \in Cookies, v \in ExecPcs : System_set_cpu_reg(k, Pc, v)
    \/ \E k \in Cookies, reg \in Regs : System_get_cpu_reg(k, reg)
    \/ \E k \in Cookies : System_execute(k)
    \/ HostWait
    \/ \E c \in CpuIds : WorkerRecv(c)
    \/ \E c \in CpuIds : WorkerStep(c)
    \/ \E c \in CpuIds : WorkerPoll(c)

\* the example's System executing from PCs and code its single step fails on
SpecExec == InitExec /\ [][ExecNext]_vars

----------------------------------------------------------------------------
(* Claims about the System and its CPU workers *)

\* C5: whenever a facade call has returned, the bus view of every registered
\* CPU holds the same sequence of ranges as the root matrix.
C5_BusViewConsistent ==
    host.pc = "idle" => \A i \in DOMAIN cpus : children[cpus[i]] = ranges

\* C8: messages are processed one at a time in the order sent: a get_reg
\* returns the value of the latest set_reg of that register that returned
\* before it, and a worker about to execute holds, in every register the
\* host has set, the value set last.
C8_OrderedDelivery ==
    /\ \A c \in CpuIds : Len(chan[c]) <= 1
    /\ (ret.op = "get_cpu_reg" /\ ret.res.ok /\ view[ret.cpu][ret.reg].set)
          => ret.res.val = view[ret.cpu][ret.reg].val
    /\ \A c \in CpuIds :
          (wpc[c] = "loop" /\ backend[c].execution_state = "Executing")
             => \A reg \in Regs :
                   view[c][reg].set => get_reg(backend[c].registers, reg).val = view[c][reg].val

\* set_reg(R, v1); set_reg(R, v2) with v2 # v1; get_reg(R) returned v2; and
\* the execute sent next has reached the worker, which is about to step
C8_Witness ==
    \E c \in CpuIds :
        /\ ret.op = "get_cpu_reg" /\ ret.res.ok /\ ret.cpu = c
        /\ view[c][ret.reg].set /\ view[c][ret.reg].over
        /\ ret.res.val = view[c][ret.reg].val
        /\ wpc[c] = "loop" /\ backend[c].execution_state = "Executing"

\* C9: a worker signals an execute's promise with Ok(CodeHookSignalledStop)
\* only if, in that execute, it called a code hook that returned StopExecution.
C9_StopOnlyIfHookStopped ==
    [][\A c \in CpuIds :
          (steps'[c] # steps[c] /\ future'.st = "ready" /\ future'.val.ok)
             => \E i \in DOMAIN HooksCalled(backend[c], backend[c].registers.pc) :
                   HooksCalled(backend[c], backend[c].registers.pc)[i].hint = "StopExecution"]_vars

\* the installed code hooks whose base is pc, in the order installed
RECURSIVE HooksAt(_, _)
HooksAt(hooks, pc) ==
    IF hooks = <<>> THEN <<>>
    ELSE IF Head(hooks).base = pc THEN <<Head(hooks)>> \o HooksAt(Tail(hooks), pc)
    ELSE HooksAt(Tail(hooks), pc)

\* C10: when a worker executes the instruction at pc p, the code hooks it
\* calls are exactly the installed hooks whose base is p, each once, in the
\* order they were installed.
C10_HooksInvokedAtPc ==
    [][\A c \in CpuIds :
          (steps'[c] # steps[c] /\ future'.st = "ready" /\ future'.val.ok)
             => HooksCalled(backend[c], backend[c].registers.pc)
                   = HooksAt(backend[c].code_hooks_on_single, backend[c].registers.pc)]_vars

\* the example's memory, before any CPU is registered
InitRom ==
    /\ SysInit
    /\ call = NoCall
    /\ ranges = add_mappable_range(<<>>, ROM_BASE, ROM_SIZE, 1, PROT_ALL)
    /\ heap = set_range(ranges, <<NewBuffer(ROM_SIZE, 0)>>, MIPS_CODE_EB, ROM_BASE).heap
    /\ update_fns = <<>>
    /\ children = [c \in ChildIds |-> <<>>]
    /\ slaves = [s \in SlaveIds |-> NewSlave]
    /\ naccess = 0
    /\ last = NoLast

TeardownNext ==
    \/ \E arch \in Archs : System_register_cpu(CPU_ENDIAN_BIG, arch)
    \/ \E k \in Cookies : System_set_cpu_reg(k, Pc, Val(49088, 4093))
    \/ \E k \in Cookies : System_execute(k)
    \/ System_drop
    \/ HostWait
    \/ \E c \in CpuIds : WorkerRecv(c)
    \/ \E c \in CpuIds : WorkerStep(c)
    \/ \E c \in CpuIds : WorkerPoll(c)

\* CPUs registered, run (some into a panic) and torn down
SpecTeardown == InitRom /\ [][TeardownNext]_vars

\* the host thread and every worker thread are scheduled: a thread that can
\* take a step eventually takes it
FairTeardown ==
    /\ SpecTeardown
    /\ WF_vars(HostWait)
    /\ \A c \in CpuIds : WF_vars(WorkerRecv(c)) /\ WF_vars(WorkerStep(c)) /\ WF_vars(WorkerPoll(c))

\* C11: when the single step of an execute fails, the execute's promise is
\* signalled with the step's error, the worker becomes Paused, and it stays
\* alive to serve the messages that follow.
C11_ExecuteFailureSignalled ==
    [][\A c \in CpuIds :
          LET b == backend[c]
              r == single_step(children[c], heap, b.registers, b.translator)
          IN (wpc[c] = "loop" /\ b.execution_state = "Executing" /\ wpc'[c] # "loop" /\ ~r.ok)
                => /\ future' = [st |-> "ready", val |-> Err(r.err)]
                   /\ backend'[c].execution_state = "Paused"
                   /\ wpc'[c] \notin {"exited", "panicked"}]_vars

Terminated(c) == wpc[c] \in {"exited", "panicked"}

\* the workers a returned facade call was addressed to
Targets(r) == IF r.cpu \in CpuIds THEN {r.cpu} ELSE { cpus[i] : i \in DOMAIN cpus }

\* C13: a facade call returns PromiseLost only if a worker it was addressed
\* to has terminated, and never while that worker has not processed Shutdown.
C13_PromiseLostOnlyAfterShutdown ==
    (ret.op # "none" /\ ~ret.res.ok /\ ret.res.err = <<"PromiseLost">>)
        => /\ \E c \in Targets(ret) : Terminated(c)
           /\ \A c \in Targets(ret) : Terminated(c) => wpc[c] = "exited"

\* the Shutdown messages queued and not yet received
ShutdownsInFlight ==
    { <<c, i>> \in CpuIds \X (1..(MaxCpus + 1)) :
         i \in DOMAIN chan[c] /\ chan[c][i].type = "Shutdown" }

\* C12: dropping a System sends Shutdown to the registered CPUs one at a
\* time; a worker that receives Shutdown signals Ok(()) and leaves its loop,
\* and handles no message afterwards; the drop always returns, also when a
\* worker had terminated before it, and once it has returned every worker
\* eventually has exited.
C12_Teardown ==
    /\ [](host.op = "drop" => Cardinality(ShutdownsInFlight) <= 1)
    /\ [](host.pc = "dropped" => \A i \in DOMAIN cpus : Terminated(cpus[i]))
    /\ [][\A c \in CpuIds :
            (~Terminated(c) /\ chan[c] # <<>> /\ Head(chan[c]).type = "Shutdown"
                /\ chan'[c] # chan[c])
               => future' = [st |-> "ready", val |-> Ok(<<>>)] /\ wpc'[c] = "exited"]_vars
    /\ [][\A c \in CpuIds :
            Terminated(c) => wpc'[c] = wpc[c] /\ backend'[c] = backend[c] /\ chan'[c] = <<>>]_vars
    /\ (host.op = "drop") ~> (host.pc = "dropped")
    /\ (host.pc = "dropped") ~> (\A c \in CpuIds : wpc[c] = "unborn" \/ Terminated(c))

\* the System has been dropped and its CPU's worker has left its loop on Shutdown
C12_Witness ==
    /\ host.pc = "dropped"
    /\ cpus # <<>>
    /\ \A i \in DOMAIN cpus : wpc[cpus[i]] = "exited"

----------------------------------------------------------------------------
(* The translator and the interpreter called directly, as the tests of
   mips/translate.rs call decode *)

\* the four bytes of a guest word, most significant first: an I-type word
\* and an R-type word with shamt 0
I_type(opc, rs, rt, imm) ==
    <<opc * 4 + rs \div 8, (rs % 8) * 32 + rt, imm \div 256, imm % 256>>

R_type(rs, rt, rd, funct) == <<rs \div 8, (rs % 8) * 32 + rt, rd * 8, funct>>

\* the words laid out in memory in the byte order given
RECURSIVE WordBytes(_, _)
WordBytes(words, big_endian) ==
    IF words = <<>> THEN <<>>
    ELSE LET w == Head(words) IN
         (IF big_endian THEN w ELSE <<w[4], w[3], w[2], w[1]>>)
            \o WordBytes(Tail(words), big_endian)

\* &buffer of a Vec holding the bytes
CodeSlice(bytes) == Slice(BufWriteN(NewBuffer(Len(bytes), 0), 0, bytes), 0, Len(bytes))

\* beq rs, rt, rel16 with offsets +12, -12, the largest, the smallest and 0;
\* and a bne
BranchWords ==
    { I_type(4, rs, rt, imm) : rs \in {6, 0}, rt \in {1, 0}, imm \in {3, 65533, 32767, 32768, 0} }
       \cup { I_type(5, 6, 1, 3) }

\* ori $at,$at,0x3456; ori $zero,$at,0x3456; ori $at,$zero,0x3456;
\* addiu $gp,$gp,-12272; addiu $zero,$a0,1; addu $s3,$a3,$zero; addu $s2,$s1,$v1;
\* lui $zero,0xabcd; lui $gp,0x8072; sw $zero,20($sp); sw $s3,-336($gp);
\* 0xFFFFFFFF; and nop (sll $zero,$zero,0)
PlainWords ==
    { I_type(13, 1, 1, 13398), I_type(13, 1, 0, 13398), I_type(13, 0, 1, 13398),
      I_type(9, 28, 28, 53264), I_type(9, 4, 0, 1), R_type(7, 0, 19, 33), R_type(17, 3, 18, 33),
      I_type(15, 0, 0, 43981), I_type(15, 0, 28, 32882), I_type(43, 29, 0, 20),
      I_type(43, 28, 19, 65200), I_type(63, 31, 31, 65535), <<0, 0, 0, 0>> }

\* one word, or two
GuestCode ==
    { <<w>> : w \in BranchWords \cup PlainWords }
       \cup { <<w1, w2>> : w1 \in BranchWords \cup PlainWords,
                           w2 \in PlainWords \cup { I_type(4, 6, 1, 3), I_type(5, 6, 1, 3) } }

\* 0x80710028, 0, 0xFFFFFFFC and ROM_VIRT
DecodeBases == { Val(32881, 40), Val(0, 0), Val(65535, 65532), ROM_VIRT }

Translators == { MipsTranslator(arch, be) : arch \in {"R2000", "VR4300"}, be \in BOOLEAN }

\* lane n holds 0x01010000 * n + 0x6789 + n, for n in 1..upto
RECURSIVE RegisterFile_filled(_)
RegisterFile_filled(upto) ==
    IF upto = 0 THEN [RegisterFile_new EXCEPT !.pc = ROM_VIRT]
    ELSE RegisterFile_write_u32(RegisterFile_filled(upto - 1), upto,
                                Val(257 * upto, 26505 + upto))

\* a fresh register file; the example's (AT = 0x6789, PC = ROM_VIRT); and one
\* whose 31 GPR lanes all differ
RegFiles ==
    { RegisterFile_new,
      RegisterFile_write_u32([RegisterFile_new EXCEPT !.pc = ROM_VIRT], 1, Val(0, 26505)),
      RegisterFile_filled(31) }

OrImms == { 0, 13398, 32768, 65535 }

\* Or(W(dst), W(src), U16(imm)) as a block of one guest instruction
OrBlocks ==
    { <<Instr(Op_DstSrcSrc("Or", R_W(dst), Src_Reg(R_W(src)), Src_ImmU16(imm)), 0, 4)>> :
         dst \in 1..31, src \in 1..31, imm \in OrImms }

FetchCalls ==
    { [NoCall EXCEPT !.fn = "fetch", !.translator = t, !.base = b, !.regs = r,
                     !.buffer = CodeSlice(WordBytes(code, t.big_endian))] :
         t \in Translators, b \in DecodeBases, r \in RegFiles, code \in GuestCode }

BlockCalls ==
    { [NoCall EXCEPT !.fn = "block", !.block = blk, !.regs = r] :
         blk \in OrBlocks, r \in RegFiles }

InitTranslate ==
    /\ BusInit
    /\ SysInit
    /\ call \in FetchCalls \cup BlockCalls

\* translator.decode(base, &buffer)
Decode ==
    /\ call.fn = "fetch"
    /\ LET d == decode(call.translator, call.base, call.buffer)
       IN call' = [call EXCEPT !.fn = "decode", !.out = d, !.block = d.instrs]
    /\ UNCHANGED busVars
    /\ UNCHANGED <<cpus, next_cpu_handle, chan, backend, wpc, future, host, ret, view, steps>>

\* interpret_op_list(&instrs, &mut regs) on a block decode returned, or on
\* one given directly
Interpret ==
    /\ call.fn = "block" \/ (call.fn = "decode" /\ call.out.ok)
    /\ call' = [call EXCEPT !.fn = "interpret", !.out = interpret_op_list(call.block, call.regs)]
    /\ UNCHANGED busVars
    /\ UNCHANGED <<cpus, next_cpu_handle, chan, backend, wpc, future, host, ret, view, steps>>

TranslateNext == Decode \/ Interpret

\* guest code decoded and the block interpreted, outside any System
SpecTranslate == InitTranslate /\ [][TranslateNext]_vars

\* bit k of x
Bit(x, k) == (x \div (2 ^ k)) % 2

\* the bytes of two register files agree everywhere but in the lanes given
SameLanesBut(a, b, lanes) ==
    \A off \in (DOMAIN a.bytes.over) \cup (DOMAIN b.bytes.over) :
        (off \div 4) \notin lanes => BufRead(a.bytes, off) = BufRead(b.bytes, off)

\* C15: interpreting Or(W(dst), W(src), U16(imm)), dst and src in 1..31,
\* succeeds and leaves in lane dst the bitwise OR of lane src and the
\* zero-extended imm, every other lane as it was; 0x6789 OR 0x3456 is 0x77DF.
C15_OrSemantics ==
    (call.fn = "interpret" /\ Len(call.block) = 1 /\ IsOrWWImmU16(call.block[1].op)
        /\ call.block[1].op.dst[2] \in 1..31 /\ call.block[1].op.src[1][2][2] \in 1..31)
      => LET op  == call.block[1].op
             dst == op.dst[2]
             src == RegisterFile_read_u32(call.regs, op.src[1][2][2])
             imm == op.src[2][2]
             res == RegisterFile_read_u32(call.out.regs, dst)
         IN /\ call.out.ok
            /\ res[1] = src[1]
            /\ res[2] \in 0..65535
            /\ \A k \in 0..15 :
                  Bit(res[2], k) = (IF Bit(src[2], k) = 1 \/ Bit(imm, k) = 1 THEN 1 ELSE 0)
            /\ SameLanesBut(call.regs, call.out.regs, {dst})
            /\ (src = Val(0, 26505) /\ imm = 13398) => res = Val(0, 30687)

\* ori $at, $at, 0x3456 interpreted with AT = 0x6789: AT is 0x77DF
C15_Witness ==
    /\ call.fn = "interpret"
    /\ call.block = <<Instr(Op_DstSrcSrc("Or", R_W(1), Src_Reg(R_W(1)), Src_ImmU16(13398)), 0, 4)>>
    /\ RegisterFile_read_u32(call.regs, 1) = Val(0, 26505)
    /\ call.out.ok
    /\ RegisterFile_read_u32(call.out.regs, 1) = Val(0, 30687)

\* the block interpreted is one decode returned
Decoded == call.fn = "interpret" /\ call.translator \in Translators

\* C16: interpret_op_list executes every block the MIPS translator emits; it
\* never answers one with Unimplemented.
C16_InterpreterCoverage ==
    Decoded => call.out.ok

\* C17: interpreting an instruction whose destination is Discard succeeds,
\* changes no register lane and advances the PC by the instruction's size;
\* GPR 0 reads as 0 after the guest instructions executed.
C17_DiscardIsNoOp ==
    /\ (call.fn = "interpret" /\ Len(call.block) = 1 /\ call.block[1].op.dst = R_Discard)
          => /\ call.out.ok
             /\ SameLanesBut(call.regs, call.out.regs, {})
             /\ call.out.regs.pc = ValAdd(call.regs.pc, call.block[1].size)
    /\ Decoded => get_reg(call.out.regs, CpuSpecific(0)) = Ok(Val(0, 0))

\* word k (from 0) of the buffer decode was called on, most significant byte first
WordAt(k) ==
    LET b(i) == SliceByte(call.buffer, 4 * k + i)
    IN IF call.translator.big_endian THEN <<b(0), b(1), b(2), b(3)>>
       ELSE <<b(3), b(2), b(1), b(0)>>

\* decode was called on a beq followed by a word that decode, called on it
\* alone, translates to one instruction
BeqWithDelaySlot ==
    /\ call.fn = "decode"
    /\ call.translator.arch = "R2000"
    /\ call.buffer.len >= 8
    /\ WordAt(0)[1] \div 4 = 4
    /\ LET alone == decode(call.translator, ValAdd(call.base, 4), SliceFrom(call.buffer, 4))
       IN alone.ok /\ Len(alone.instrs) = 1 /\ alone.instrs[1].op.name # "B"

\* (pc + d) mod 2^32 for a signed d
AddMod32(pc, d) ==
    LET lo == pc[2] + d
        carry == IF lo >= 0 THEN lo \div 65536 ELSE 0 - (((0 - lo) + 65535) \div 65536)
    IN Val((pc[1] + carry + 65536) % 65536, lo - carry * 65536)

BranchOpcodes == {1, 2, 3, 4, 5, 6, 7}

\* C19: decoding a beq whose delay-slot word is itself a branch returns a
\* decode error and no IISA instruction; and no call of decode nests
\* deeper than two calls of decode_mips32, the branch's and its delay slot's.
C19_NestedBranchRejected ==
    /\ (call.fn = "decode" /\ call.translator.arch = "R2000" /\ call.buffer.len >= 8
           /\ WordAt(0)[1] \div 4 = 4 /\ (WordAt(1)[1] \div 4) \in BranchOpcodes)
          => /\ ~call.out.ok /\ ~call.out.panic
             /\ call.out.err[1] = "Decode"
             /\ call.out.instrs = <<>>
             /\ call.block = <<>>
    /\ call.fn = "decode" => call.out.depth <= 2

\* beq $a2,$at,+12 with the same beq in its delay slot: the error is that of
\* the second call of decode_mips32
C19_Witness ==
    /\ call.fn = "decode"
    /\ call.translator = MipsTranslator("R2000", TRUE)
    /\ call.buffer = CodeSlice(<<16, 193, 0, 3, 16, 193, 0, 3>>)
    /\ call.out = Calling(DecodeErr("Branch while in delay slot"),
                          DecodeErr("Branch while in delay slot"))

----------------------------------------------------------------------------
(* The translator's register access called directly, as process_message
   calls it (executor.rs:180-186) *)

\* every GPR, the first CpuSpecific register that is none, and the PC
AllRegs == { CpuSpecific(n) : n \in 0..32 } \cup { Pc }

\* 0, 0x6789, 0x80710028, 0xFFFFFFFF and 0x100000000
SetValues == { Val(0, 0), Val(0, 26505), Val(32881, 40), Val(65535, 65535), Val(65536, 0) }

InitRegs ==
    /\ BusInit
    /\ SysInit
    /\ call \in { [NoCall EXCEPT !.fn = "regs", !.regs = r] : r \in RegFiles }

\* translator.set_reg(&mut registers, reg, value)
SetReg(reg, value) ==
    /\ call.fn = "regs"
    /\ call' = [call EXCEPT !.fn = "set_reg", !.reg = reg, !.value = value,
                            !.out = set_reg(call.regs, reg, value)]
    /\ UNCHANGED busVars
    /\ UNCHANGED <<cpus, next_cpu_handle, chan, backend, wpc, future, host, ret, view, steps>>

\* translator.get_reg(&registers, reg) after the set_reg
GetReg(reg) ==
    /\ call.fn = "set_reg"
    /\ call' = [call EXCEPT !.fn = "get_reg",
                            !.then = [reg |-> reg, out |-> get_reg(call.out.regs, reg)]]
    /\ UNCHANGED busVars
    /\ UNCHANGED <<cpus, next_cpu_handle, chan, backend, wpc, future, host, ret, view, steps>>

RegsNext ==
    \/ \E reg \in AllRegs, value \in SetValues : SetReg(reg, value)
    \/ \E reg \in AllRegs : GetReg(reg)

\* a register set and a register read back, outside any System
SpecRegs == InitRegs /\ [][RegsNext]_vars

\* C20: for n in 1..31 and v in 0..2^32-1, set_reg(CpuSpecific(n), v)
\* succeeds, and after it get_reg(CpuSpecific(n)) returns v while get_reg of
\* every other GPR and of Pc returns what it returned before the set.
C20_RegisterLaneRoundTrip ==
    (call.fn \in {"set_reg", "get_reg"} /\ call.reg[1] = "CpuSpecific" /\ call.reg[2] \in 1..31
        /\ call.value[1] \in 0..65535)
      => /\ call.out.ok
         /\ get_reg(call.out.regs, call.reg) = Ok(call.value)
         /\ call.fn = "get_reg"
               => /\ call.then.reg = call.reg => call.then.out = Ok(call.value)
                  /\ (call.then.reg # call.reg /\ call.then.reg \in AllRegs \ {CpuSpecific(32)})
                        => /\ call.then.out.ok
                           /\ call.then.out = get_reg(call.regs, call.then.reg)

\* with all 31 GPR lanes holding different values, $ra was set to 0xFFFFFFFF
\* and $fp then read: it holds what it held
C20_Witness ==
    /\ call.fn = "get_reg"
    /\ call.regs = RegisterFile_filled(31)
    /\ call.reg = CpuSpecific(31) /\ call.value = Val(65535, 65535)
    /\ call.out.ok
    /\ call.then.reg = CpuSpecific(30)
    /\ call.then.out = Ok(Val(257 * 30, 26505 + 30))

\* the IISA block single_step hands to the interpreter, <<>> when the step
\* fails before it has one
StepBlock(fsb, hp, regs, translator) ==
    LET page_virt_base == PageVirtBase(regs.pc)
        v2p == virtual_to_phys(regs, page_virt_base)
        f == find_range(fsb, v2p.phys, PAGE_SIZE)
    IN IF ~v2p.some \/ ~f.ok THEN <<>>
       ELSE decode(translator, regs.pc,
                   SliceFrom(Slice(hp[f.ptr], f.off, PAGE_SIZE),
                             regs.pc[2] - page_virt_base[2])).instrs

\* the guest bytes a block stands for: a branch and its delay slot, or one
\* instruction
GuestBytes(block) == IF block[Len(block)].op.name = "B" THEN 8 ELSE 4

\* C14: a single step leaves the PC alone until the last IISA instruction of
\* the guest instruction's block has been committed; a step that succeeds
\* has advanced the PC by the guest bytes consumed, 4 for a non-branch
\* instruction and 8 for a branch with its delay slot, and a step that fails
\* has not changed it.
C14_PcCommit ==
    [][\A c \in CpuIds :
          LET b == backend[c]
              block == StepBlock(children[c], heap, b.registers, b.translator)
          IN (steps'[c] # steps[c])
                => /\ \A k \in 0..(Len(block) - 1) :
                         interpret_op_list(SubSeq(block, 1, k), b.registers).regs.pc
                            = b.registers.pc
                   /\ future'.val.ok
                         => /\ block # <<>>
                            /\ backend'[c].registers.pc
                                  = ValAdd(b.registers.pc, GuestBytes(block))
                   /\ ~future'.val.ok => backend'[c].registers.pc = b.registers.pc]_vars

\* execute has returned Ok after the step of the ori at ROM_VIRT, and the PC
\* is ROM_VIRT + 4
C14_Witness ==
    /\ ret.op = "execute" /\ ret.res.ok
    /\ steps[ret.cpu] > 0
    /\ backend[ret.cpu].registers.pc = ValAdd(ROM_VIRT, 4)

----------------------------------------------------------------------------
(* Register access through the facade with registers and values the CPU
   rejects *)

\* the PC, $at and the first CpuSpecific register that is none
ErrRegs == { Pc, REG_AT, CpuSpecific(32) }

\* 0x6789, 0xFFFFFFFF and 0x100000000
ErrValues == { Val(0, 26505), Val(65535, 65535), Val(65536, 0) }

RegErrNext ==
    \/ \E k \in Cookies, reg \in ErrRegs, v \in ErrValues : System_set_cpu_reg(k, reg, v)
    \/ \E k \in Cookies, reg \in ErrRegs : System_get_cpu_reg(k, reg)
    \/ HostWait
    \/ \E c \in CpuIds : WorkerRecv(c)

\* the example's System asked for registers it has not and values too wide
SpecRegErr == InitBooted /\ [][RegErrNext]_vars

UnknownReg(reg) == reg[1] = "CpuSpecific" /\ reg[2] > 31

\* the worker takes the message at the head of its channel
Receives(c, type) ==
    /\ chan[c] # <<>>
    /\ Head(chan[c]).type = type
    /\ chan'[c] = Tail(chan[c])

\* C21: a SetReg with a value above 2^32-1 is answered with
\* SetRegValueOutOfRange(reg, v); a SetReg (of a value that fits) on
\* CpuSpecific(n), n > 31, with SetRegUnknownReg and a GetReg on it with
\* GetRegUnknownReg; in each case the register file and the PC stay as they
\* were, the error is signalled on the message's promise, and the facade call
\* returns it.
C21_RegisterAccessErrors ==
    [][/\ \A c \in CpuIds :
            LET m == Head(chan[c]) IN
            /\ (Receives(c, "SetReg") /\ ~FitsU32(m.value))
                  => /\ future' = [st |-> "ready",
                                    val |-> Err(<<"SetRegValueOutOfRange", m.reg, m.value>>)]
                     /\ backend'[c].registers = backend[c].registers
            /\ (Receives(c, "SetReg") /\ FitsU32(m.value) /\ UnknownReg(m.reg))
                  => /\ future' = [st |-> "ready",
                                    val |-> Err(<<"SetRegUnknownReg", m.reg, m.value>>)]
                     /\ backend'[c].registers = backend[c].registers
            /\ (Receives(c, "GetReg") /\ UnknownReg(m.reg))
                  => /\ future' = [st |-> "ready", val |-> Err(<<"GetRegUnknownReg", m.reg>>)]
                     /\ backend'[c].registers = backend[c].registers
       /\ (host.pc = "wait" /\ host'.pc = "idle" /\ host.op \in {"set_cpu_reg", "get_cpu_reg"})
            => /\ future.st = "ready"
               /\ ret'.res = future.val
               /\ ret'.reg = host.arg.reg]_vars

\* set_cpu_reg(Pc, 0x100000000) has returned SetRegValueOutOfRange after the
\* PC had been set to 0xFFFFFFFF, which it still holds
C21_Witness ==
    /\ ret.op = "set_cpu_reg"
    /\ ret.res = Err(<<"SetRegValueOutOfRange", Pc, Val(65536, 0)>>)
    /\ backend[ret.cpu].registers.pc = Val(65535, 65535)

----------------------------------------------------------------------------
(* Claims about CPU handles *)

HandleNext ==
    \/ \E opts \in CpuOpts, arch \in Archs : System_register_cpu(opts, arch)
    \/ \E k \in Cookies : System_set_cpu_reg(k, Pc, ROM_VIRT)
    \/ \E k \in Cookies : System_get_cpu_reg(k, Pc)
    \/ \E k \in Cookies : System_execute(k)
    \/ HostWait
    \/ \E c \in CpuIds : WorkerRecv(c)
    \/ \E c \in CpuIds : WorkerStep(c)
    \/ \E c \in CpuIds : WorkerPoll(c)

\* a System without memory: CPUs are registered and used through cookies
SpecHandles == Init /\ [][HandleNext]_vars

\* the keys of the cpus map: the handles register_cpu has returned so far
Handles == { i - 1 : i \in DOMAIN cpus }

\* the call made with this cookie has returned InvalidCpuCookie, no message
\* was sent and nothing but the returned value differs
RejectsCookie(op) ==
    /\ ret' = [op |-> op, cpu |-> 0, reg |-> <<>>, res |-> Err(<<"InvalidCpuCookie">>)]
    /\ chan' = chan
    /\ future' = future
    /\ host' = host
    /\ UNCHANGED busVars
    /\ UNCHANGED <<cpus, next_cpu_handle, backend, wpc, view, steps, call>>

\* C22: the handle register_cpu returns is larger than every handle returned
\* before it (0, 1, 2, ... in order of registration), and the CPU is stored
\* under it; set_cpu_reg, get_cpu_reg and execute with a cookie whose handle
\* is not registered return InvalidCpuCookie, send no message and change no
\* state, and InvalidCpuCookie is returned for no other cookie.
C22_CpuHandles ==
    [][ /\ cpus' # cpus =>
              /\ ret'.op = "register_cpu"
              /\ ret'.res.ok
              /\ ret'.res.val[1] = "CpuCookie"
              /\ \A h \in Handles : ret'.res.val[2] > h
              /\ ret'.res.val[2] = Cardinality(Handles)
              /\ Handles' = Handles \cup { ret'.res.val[2] }
        /\ \A k \in Cookies \ Handles :
              /\ System_set_cpu_reg(k, Pc, ROM_VIRT) => RejectsCookie("set_cpu_reg")
              /\ System_get_cpu_reg(k, Pc) => RejectsCookie("get_cpu_reg")
              /\ System_execute(k) => RejectsCookie("execute")
        /\ (ret' # ret /\ ret'.res = Err(<<"InvalidCpuCookie">>)) =>
              /\ host.pc = "idle"
              /\ \E k \in Cookies \ Handles :
                    \/ System_set_cpu_reg(k, Pc, ROM_VIRT)
                    \/ System_get_cpu_reg(k, Pc)
                    \/ System_execute(k)
      ]_vars

\* two CPUs have been registered, the second under handle 1, and an execute
\* with the cookie of handle 2 has returned InvalidCpuCookie
C22_Witness ==
    /\ Handles = { 0, 1 }
    /\ next_cpu_handle = 2
    /\ ret.op = "execute"
    /\ ret.res = Err(<<"InvalidCpuCookie">>)

\* the guest variants register_cpu is called with: a MIPS32 part and the MIPS64 part
GuestArchs == { "R2000", "VR4300" }

ArchNext ==
    \/ \E opts \in CpuOpts, arch \in GuestArchs : System_register_cpu(opts, arch)
    \/ \E k \in Cookies : System_get_cpu_reg(k, Pc)
    \/ \E k \in Cookies : System_execute(k)
    \/ HostWait
    \/ \E c \in CpuIds : WorkerRecv(c)
    \/ \E c \in CpuIds : WorkerStep(c)
    \/ \E c \in CpuIds : WorkerPoll(c)

\* a System without memory whose CPUs are of either guest variant
SpecArch == Init /\ [][ArchNext]_vars

\* C23: register_cpu with the MIPS64 part VR4300, which the core cannot
\* decode, returns UnimplementedArchitecture and adds no CPU to the System:
\* the cpus map, next_cpu_handle and the worker threads are as before.
C23_UnsupportedArchitecture ==
    [][ \A opts \in CpuOpts :
            System_register_cpu(opts, "VR4300") =>
                /\ ret'.op = "register_cpu"
                /\ ret'.res = Err(<<"UnimplementedArchitecture">>)
                /\ UNCHANGED <<cpus, next_cpu_handle, update_fns, wpc, backend>>
      ]_vars

----------------------------------------------------------------------------
(* Claims about MMIO dispatch and read protection *)

MmioNext ==
    \/ \E sp \in BusSpans, prot \in Prots : AddMappableRange(sp[1], sp[2], prot)
    \/ \E sp \in BusSpans, s \in SlaveIds : AddBusSlave(sp[1], sp[2], s)
    \/ \E s \in SlaveIds : PoisonSlave(s)
    \/ \E a \in Addrs : ReadU8(a)
    \/ \E a \in Addrs : ReadU16(a)
    \/ \E a \in Addrs : ReadU32(a)
    \/ \E a \in Addrs : ReadU64(a)
    \/ \E a \in Addrs : WriteU8(a)
    \/ \E a \in Addrs : WriteU16(a)
    \/ \E a \in Addrs : WriteU32(a)
    \/ \E a \in Addrs : WriteU64(a)

\* a bus matrix with memory and a peripheral whose lock may get poisoned
SpecMmio == Init /\ [][MmioNext]_vars

\* the entry a TestBusSlave logs for the access recorded in last
Logged(r) ==
    [op |-> last.op, width |-> last.width, addr |-> last.addr - r.base,
     data |-> IF last.op = "write" THEN last.data ELSE <<>>]

\* C24: a typed access at a that is dispatched to an Mmio range calls the
\* slave's operation of the same width once, with the address a - range.base,
\* and returns the slave's result; no other slave is called and no memory
\* changes; with the slave's lock poisoned the access returns BusError and
\* calls no slave; an access that matches no range calls no slave.
C24_MmioDispatch ==
    last.op \in {"read", "write"} =>
        /\ (last.range # 0 /\ ranges[last.range].kind = "Mmio") =>
              LET r == ranges[last.range]
                  before == last.slavesBefore[r.slave]
              IN /\ heap = last.heapBefore
                 /\ \A s \in SlaveIds \ {r.slave} : slaves[s] = last.slavesBefore[s]
                 /\ IF before.poisoned
                    THEN /\ last.res = "BusError"
                         /\ slaves = last.slavesBefore
                    ELSE /\ slaves[r.slave].accesses = Append(before.accesses, Logged(r))
                         /\ ~slaves[r.slave].poisoned
                         /\ last.res = "Success"
                         /\ last.op = "read" =>
                               last.value = CountBytes(Len(before.accesses) + 1, last.width)
        /\ last.range = 0 =>
              /\ last.res = "BusError"
              /\ slaves = last.slavesBefore

\* a read_u16 at 0x100C has been dispatched to the slave at 0x1000, which
\* logged one ReadU16(0xC) and answered 1
C24_Witness ==
    /\ last.op = "read"
    /\ last.addr = 4108
    /\ last.width = 2
    /\ last.range # 0
    /\ ranges[last.range] = Mmio(4096, 16, 1)
    /\ last.res = "Success"
    /\ last.value = <<1, 0>>
    /\ slaves[1].accesses = <<[op |-> "read", width |-> 2, addr |-> 12, data |-> <<>>]>>

\* C25: a read addressed inside a Mappable range without the read bit returns
\* BusError; a read whose bytes lie inside a Mappable range with the read bit
\* returns Success with the bytes stored there; no read changes memory.
C25_ReadProtection ==
    last.op = "read" =>
        /\ heap = last.heapBefore
        /\ \A i \in 1..Len(ranges) :
              LET r == ranges[i] IN
              r.kind = "Mappable" =>
                 /\ (~Contains(r.prot, PROT_READ)
                        /\ r.base <= last.addr /\ last.addr < RangeEnd(r))
                    => last.res = "BusError"
                 /\ (Contains(r.prot, PROT_READ)
                        /\ i \in Containing(ranges, last.addr, last.width))
                    => /\ last.res = "Success"
                       /\ last.value = BufReadN(heap[r.ptr], last.addr - r.base, last.width)

----------------------------------------------------------------------------
(* Claims about the translator's operands *)

AllGprs == 0..31

\* a few registers every other field is drawn from: $zero, $a1 and $ra
SomeGprs == { 0, 5, 31 }

\* every instruction decode_mips32 translates, with each register field in
\* turn ranging over all 32 GPRs
GprWords ==
    { I_type(opc, rs, rt, 20) : opc \in {9, 13, 43, 4}, rs \in AllGprs, rt \in SomeGprs }
       \cup { I_type(opc, rs, rt, 20) : opc \in {9, 13, 43, 4}, rs \in SomeGprs, rt \in AllGprs }
       \cup { I_type(15, 0, rt, 20) : rt \in AllGprs }
       \cup { R_type(rs, rt, rd, 33) : rs \in AllGprs, rt \in SomeGprs, rd \in SomeGprs }
       \cup { R_type(rs, rt, rd, 33) : rs \in SomeGprs, rt \in AllGprs, rd \in SomeGprs }
       \cup { R_type(rs, rt, rd, 33) : rs \in SomeGprs, rt \in SomeGprs, rd \in AllGprs }

\* the word, followed by sw $zero,20($sp) (the delay slot, if it is a branch)
GprCalls ==
    { [NoCall EXCEPT !.fn = "fetch", !.translator = MipsTranslator("R2000", be),
                     !.base = ROM_VIRT, !.regs = RegisterFile_new,
                     !.buffer = CodeSlice(WordBytes(<<w, I_type(43, 29, 0, 20)>>, be))] :
         w \in GprWords, be \in BOOLEAN }

InitGpr ==
    /\ BusInit
    /\ SysInit
    /\ call \in GprCalls

\* every translated instruction over every GPR, decoded and interpreted
SpecGpr == InitGpr /\ [][TranslateNext]_vars

\* the register fields of an instruction word
GprFields(w) ==
    [opc |-> w[1] \div 4, rs |-> (w[1] % 4) * 8 + w[2] \div 32, rt |-> w[2] % 32,
     rd |-> w[3] \div 8]

GprAsDest(n) == IF n = 0 THEN R_Discard ELSE R_W(n)

GprAsSource(n) == IF n = 0 THEN Src_ImmU32(Val(0, 0)) ELSE Src_Reg(R_W(n))

\* op names the registers of word w as claimed
MapsGprs(op, w) ==
    LET f == GprFields(w) IN
    CASE f.opc \in {9, 13} -> op.dst = GprAsDest(f.rt) /\ op.src[1] = GprAsSource(f.rs)
      [] f.opc = 15 -> op.dst = GprAsDest(f.rt)
      [] f.opc = 43 -> op.src[1] = GprAsSource(f.rt) /\ op.src[3] = GprAsSource(f.rs)
      [] f.opc = 0 -> op.dst = GprAsDest(f.rd) /\ op.src = <<GprAsSource(f.rs), GprAsSource(f.rt)>>
      [] f.opc = 4 -> op.src = <<GprAsSource(f.rs), GprAsSource(f.rt)>>
      [] OTHER -> FALSE

NamesW0(op) ==
    \/ op.dst = R_W(0)
    \/ \E k \in 1..Len(op.src) : op.src[k] = Src_Reg(R_W(0))

\* C26: in every instruction decode returns, a destination that is GPR 0 is
\* Discard and a source that is GPR 0 (the stored register of sw included) is
\* ImmU32(0); a destination GPR n in 1..31 is W(n) and a source Reg(W(n)); no
\* instruction names W(0).
C26_GprZeroMapping ==
    (call.fn = "decode" /\ call.out.ok) =>
        LET instrs == call.out.instrs IN
        /\ \A k \in 1..Len(instrs) : ~NamesW0(instrs[k].op)
        /\ IF Len(instrs) = 1
           THEN MapsGprs(instrs[1].op, WordAt(0))
           ELSE /\ Len(instrs) = 2
                /\ MapsGprs(instrs[2].op, WordAt(0))
                /\ MapsGprs(instrs[1].op, WordAt(1))

\* addu $zero,$ra,$zero has been decoded to Add(Discard, Reg(W(31)), ImmU32(0))
C26_Witness ==
    /\ call.fn = "decode"
    /\ WordAt(0) = R_type(31, 0, 0, 33)
    /\ call.out.ok
    /\ call.out.instrs[1].op =
          Op_DstSrcSrc("Add", R_Discard, Src_Reg(R_W(31)), Src_ImmU32(Val(0, 0)))

\* the words of the buffer decode was called on
WordsFetched == [k \in 1..(call.buffer.len \div 4) |-> WordAt(k - 1)]

\* C27: decoding the big-endian bytes of an instruction word with the
\* big-endian flag set and decoding its little-endian bytes with the flag
\* clear return the same result, at every base; a word other than a branch
\* that decodes gives a single instruction with exc = 0 and size = 4.
C27_EndiannessEquivalence ==
    call.fn = "decode" =>
        LET t == call.translator
            other == MipsTranslator(t.arch, ~t.big_endian)
            swapped == CodeSlice(WordBytes(WordsFetched, other.big_endian))
        IN /\ decode(other, call.base, swapped) = call.out
           /\ (call.out.ok /\ GprFields(WordAt(0)).opc # 4) =>
                 /\ Len(call.out.instrs) = 1
                 /\ call.out.instrs[1].exc = 0
                 /\ call.out.instrs[1].size = 4

\* the example's little-endian code, 56 34 21 34, has been decoded with the
\* flag clear to what its big-endian code decodes to with the flag set
C27_Witness ==
    /\ call.fn = "decode"
    /\ ~call.translator.big_endian
    /\ call.buffer = CodeSlice(MIPS_CODE_EL)
    /\ call.out = DecodeOk(<<Instr(Op_DstSrcSrc("Or", R_W(1), Src_Reg(R_W(1)),
                                                Src_ImmU16(13398)), 0, 4)>>)
    /\ call.out = decode(MipsTranslator("R2000", TRUE), call.base, CodeSlice(MIPS_CODE_EB))

\* C28: when interpret_op_list is handed the block of a branch and its delay
\* slot, it commits both instructions or, if one of them fails, leaves the
\* register file and the PC exactly as they were before the call.
C28_AtomicRetirement ==
    (call.fn = "interpret" /\ Len(call.block) = 2 /\ call.block[2].op.name = "B") =>
        \/ call.out.ok
        \/ call.out.regs = call.regs

----------------------------------------------------------------------------
(* Claims about the instruction fetch and the worker's loop *)

\* 16 bytes of RAM at physical 0x1000, less than a page
ShortSpan == <<4096, 16>>

\* 0x6789, outside every translated segment; 0x80000000, whose page no range
\* holds; 0x80001008 and 0xA0001008, inside the short range; ROM_VIRT
FetchPcs == { Val(0, 26505), Val(32768, 0), Val(32768, 4104), Val(40960, 4104), ROM_VIRT }

\* the state after add_mappable_range(PROT_ALL, ROM_BASE, ROM_SIZE),
\* add_mappable_range(PROT_ALL, 0x1000, 16), set_range(code, ROM_BASE) and
\* register_cpu(opts, R2000), built with the operations these calls perform
InitFetch ==
    \E fill \in FillBytes, code \in SysCode, opts \in CpuOpts :
       LET rs == add_mappable_range(
                    add_mappable_range(<<>>, ROM_BASE, ROM_SIZE, 1, PROT_ALL),
                    ShortSpan[1], ShortSpan[2], 2, PROT_ALL)
       IN /\ ranges = rs
          /\ heap = set_range(rs, <<NewBuffer(ROM_SIZE, fill), NewBuffer(ShortSpan[2], fill)>>,
                              code, ROM_BASE).heap
          /\ update_fns = <<1>>
          /\ children = [c \in ChildIds |->
                            IF c = 1 THEN ApplyAll(<<>>, ReplayedEvents(rs)) ELSE <<>>]
          /\ slaves = [s \in SlaveIds |-> NewSlave]
          /\ naccess = 0
          /\ last = NoLast
          /\ cpus = <<1>>
          /\ next_cpu_handle = 1
          /\ chan = [c \in CpuIds |-> <<>>]
          /\ backend = [c \in CpuIds |->
                           Backend_new(IF c = 1 THEN mips_cpu_factory(opts, "R2000")
                                       ELSE MipsTranslator("R2000", FALSE))]
          /\ wpc = [c \in CpuIds |-> IF c = 1 THEN "loop" ELSE "unborn"]
          /\ future = NoFuture
          /\ host = Idle
          /\ ret = [op |-> "register_cpu", cpu |-> 1, reg |-> <<>>,
                    res |-> Ok(<<"CpuCookie", 0>>)]
          /\ view = [c \in CpuIds |-> NoView]
          /\ steps = [c \in CpuIds |-> 0]
          /\ call = NoCall

FetchNext ==
    \/ \E k \in Cookies, v \in FetchPcs : System_set_cpu_reg(k, Pc, v)
    \/ \E k \in Cookies : System_execute(k)
    \/ HostWait
    \/ \E c \in CpuIds : WorkerRecv(c)
    \/ \E c \in CpuIds : WorkerStep(c)
    \/ \E c \in CpuIds : WorkerPoll(c)

\* a CPU on a System with memory, stepped from PCs in and out of it
SpecFetch == InitFetch /\ [][FetchNext]_vars

\* the ranges of a bus view that hold every byte of the page at phys
HoldingPage(fsb, phys) ==
    { i \in 1..Len(fsb) : /\ fsb[i].kind = "Mappable"
                           /\ fsb[i].base <= phys
                           /\ phys + PAGE_SIZE <= RangeEnd(fsb[i]) }

\* worker c makes its single step
Steps(c) ==
    /\ wpc[c] = "loop"
    /\ backend[c].execution_state = "Executing"
    /\ wpc'[c] # "loop"

\* C29: a single step takes the page of the PC, pc & ~4095; if
\* virtual_to_phys has no address for it the step fails with
\* VirtualAddrNotMappable(page), whatever the bus view holds; otherwise, if no
\* Mappable range of the worker's bus view holds all of [phys, phys + 4096),
\* it fails with UnableToFindRange(phys, 4096), also with the PC inside a
\* range shorter than a page; both failures leave registers and PC as they
\* were; with such a range the step fails with neither error.
C29_InstructionFetch ==
    [][\A c \in CpuIds :
          LET b == backend[c]
              page == Val(b.registers.pc[1], (b.registers.pc[2] \div 4096) * 4096)
              v2p == virtual_to_phys(b.registers, page)
              holding == HoldingPage(children[c], v2p.phys)
              failed(err) == /\ future' = [st |-> "ready", val |-> Err(err)]
                             /\ backend'[c].registers = b.registers
                             /\ UNCHANGED <<children, heap, ranges>>
          IN Steps(c) =>
                IF ~v2p.some THEN failed(<<"VirtualAddrNotMappable", page>>)
                ELSE IF holding = {} THEN failed(<<"UnableToFindRange", v2p.phys, 4096>>)
                ELSE \/ wpc'[c] = "panicked"
                     \/ future'.val.ok
                     \/ future'.val.err[1] \notin {"VirtualAddrNotMappable", "UnableToFindRange"}
      ]_vars

\* execute at 0x80001008, inside the 16-byte range at physical 0x1000, has
\* returned UnableToFindRange(0x1000, 4096) and the PC is as it was
C29_Witness ==
    /\ ret.op = "execute"
    /\ ret.res = Err(<<"UnableToFindRange", 4096, 4096>>)
    /\ backend[ret.cpu].registers.pc = Val(32768, 4104)
    /\ HoldingPage(children[ret.cpu], 4096) = {}
    /\ \E i \in 1..Len(children[ret.cpu]) :
          children[ret.cpu][i].base <= 4104 /\ 4104 < RangeEnd(children[ret.cpu][i])

\* worker c takes a step of its loop
Runs(c) == wpc'[c] # wpc[c] \/ backend'[c] # backend[c]

\* C30: the worker starts Paused; it becomes Executing only by processing an
\* Execute message; no message is processed while it is Executing; for each
\* Execute it makes exactly one single-step attempt, signals the Execute's
\* promise once with the outcome and is Paused again before it takes another
\* message, so an execute runs no more than one guest instruction block.
C30_WorkerStateMachine ==
    /\ \A c \in CpuIds : backend[c].execution_state = "Paused"
    /\ [][\A c \in CpuIds :
             LET b == backend[c]
                 r == single_step(children[c], heap, b.registers, b.translator)
             IN /\ (b.execution_state = "Paused" /\ backend'[c].execution_state = "Executing")
                      => /\ Receives(c, "Execute")
                         /\ future' = future
                         /\ steps' = steps
                /\ (chan[c] # <<>> /\ chan'[c] = Tail(chan[c]))
                      => b.execution_state = "Paused"
                /\ (b.execution_state = "Executing" /\ Runs(c))
                      => /\ steps'[c] = steps[c] + 1
                         /\ future' = [st |-> "ready",
                                       val |-> IF r.ok THEN Ok(CodeHookSignalledStop)
                                               ELSE Err(r.err)]
                         /\ backend'[c] = [b EXCEPT !.registers = r.regs,
                                                    !.execution_state = "Paused"]
                         /\ chan' = chan
                /\ steps'[c] # steps[c]
                      => b.execution_state = "Executing" /\ steps'[c] = steps[c] + 1
       ]_vars

----------------------------------------------------------------------------
(* Installing bytes and reading them back *)

\* read_u8(base + i) made right after a set_range(bytes, base) returned Ok,
\* for a byte i of the string installed; the record keeps what was installed
ReadU8AfterSetRange(i) ==
    LET r == read_u8(ranges, heap, slaves, last.addr + i) IN
    /\ last.op = "set_range"
    /\ last.res = "Ok"
    /\ i < Len(last.data)
    /\ slaves' = r.slaves
    /\ last' = [Snapshot("read_back") EXCEPT
                   !.addr = last.addr, !.data = last.data, !.range = last.range,
                   !.off = i, !.res = r.res, !.value = r.value]
    /\ UNCHANGED <<ranges, update_fns, heap, children, naccess>>
    /\ UNCHANGED sysVars

InstallNext ==
    \/ \E sp \in BusSpans, prot \in Prots : AddMappableRange(sp[1], sp[2], prot)
    \/ \E sp \in BusSpans, s \in SlaveIds : AddBusSlave(sp[1], sp[2], s)
    \/ \E b \in SetBases, inc \in Incoming : SetRange(inc, b)
    \/ \E i \in 0..16 : ReadU8AfterSetRange(i)

\* a bus matrix under bulk installs, each read back byte by byte
SpecInstall == Init /\ [][InstallNext]_vars

\* C31: after set_range(bytes, base) succeeded on a Mappable range with the
\* read bit, read_u8(base + i) returns Success(bytes[i]) for every byte i of
\* the string, also when base + len(bytes) is the end of the range.
C31_InstallReadRoundTrip ==
    (last.op = "read_back" /\ Contains(ranges[last.range].prot, PROT_READ)) =>
        /\ last.res = "Success"
        /\ last.value = <<last.data[last.off + 1]>>

----------------------------------------------------------------------------
(* Claims about the interleaving of the host thread and a worker thread *)

\* what the host can tell of worker c between two calls: its register file
\* (the PC is one of its fields) and whether its thread still runs
Gone(c) == wpc[c] \in {"exited", "panicked"}

Cpu(c) == [registers |-> backend[c].registers, gone |-> Gone(c)]

CpuAfter(c) == [registers |-> backend'[c].registers,
                gone |-> wpc'[c] \in {"exited", "panicked"}]

Signalled(r) == [st |-> "ready", val |-> r]

Lost == [st |-> "lost", val |-> Ok(<<>>)]

\* the call op(arg) made alone: the worker is Paused in recv when the message
\* is sent and nothing else runs until the call's future is ready or lost
Alone(op, arg) ==
    LET c == arg.cpu
        b == backend[c]
    IN IF Gone(c) THEN [future |-> Lost, cpu |-> Cpu(c)]
       ELSE CASE op = "set_cpu_reg" ->
                   LET r == set_reg(b.registers, arg.reg, arg.value)
                   IN [future |-> Signalled(IF r.ok THEN Ok(<<>>) ELSE Err(r.err)),
                       cpu |-> [registers |-> r.regs, gone |-> FALSE]]
              [] op = "get_cpu_reg" ->
                   LET g == get_reg(b.registers, arg.reg)
                   IN [future |-> Signalled(IF g.ok THEN Ok(g.val) ELSE Err(g.err)),
                       cpu |-> Cpu(c)]
              [] op = "execute" ->
                   LET r == single_step(children[c], heap, b.registers, b.translator)
                   IN IF r.panic
                      THEN [future |-> Lost,
                            cpu |-> [registers |-> b.registers, gone |-> TRUE]]
                      ELSE [future |-> Signalled(IF r.ok THEN Ok(CodeHookSignalledStop)
                                                 ELSE Err(r.err)),
                            cpu |-> [registers |-> r.regs, gone |-> FALSE]]

\* one step of the host or of a worker, seen from the host's calls
AsIfAlone ==
    LET same == \A c \in CpuIds : CpuAfter(c) = Cpu(c) IN
    /\ host.pc = "idle" =>
          \* between calls no worker changes; a call returns at once only for
          \* a cookie that is not registered, and else waits on a future that
          \* is lost at once only if the worker is gone
          /\ same
          /\ (host'.pc = "idle" /\ ret' # ret) => ret'.res = Err(<<"InvalidCpuCookie">>)
          /\ host'.pc = "wait" =>
                future' = IF Gone(host'.arg.cpu) THEN Lost
                          ELSE [st |-> "pending", val |-> Ok(<<>>)]
    /\ (host.pc = "wait" /\ future.st = "pending") =>
          \* until the future is signalled or lost nothing changes, and the
          \* step that does it is the call made alone
          /\ host' = host
          /\ IF future'.st = "pending" THEN same
             ELSE /\ future' = Alone(host.op, host.arg).future
                  /\ \A c \in CpuIds :
                        CpuAfter(c) = IF c = host.arg.cpu
                                      THEN Alone(host.op, host.arg).cpu ELSE Cpu(c)
    /\ (host.pc = "wait" /\ future.st # "pending") =>
          \* from then on nothing changes, and the call returns the future's value
          /\ same
          /\ host'.pc = "wait" => future' = future
          /\ host'.pc = "idle" =>
                /\ ret'.op = host.op
                /\ ret'.res = IF future.st = "ready" THEN future.val
                              ELSE Err(<<"PromiseLost">>)

\* C32: under every interleaving of the host thread and the worker thread,
\* each call of set_cpu_reg, get_cpu_reg and execute returns what it returns,
\* and leaves the registers and the PC as it leaves them, when it is made
\* alone on the registers the CPU held when the call was made; so the results
\* of a sequence of calls and the final registers are the same under every
\* interleaving, whether the message after an Execute is taken by the poll
\* after the step or by the receive in Paused.
C32_InterleavingIndependence == [][AsIfAlone]_vars

\* the host's next message (a GetReg) is in the channel before the worker has
\* polled after its step: the poll takes it, not the receive in Paused
C32_Witness ==
    /\ steps[1] = 1
    /\ wpc[1] = "poll"
    /\ chan[1] = <<Message_GetReg(REG_AT)>>
    /\ ret.op = "execute"
    /\ ret.res = Ok(CodeHookSignalledStop)
    /\ host.pc = "wait"

====
